---------------------------- MODULE Spec2Model ----------------------------
(***************************************************************************)
(* camera-to-immich: the persistent de-duplication state                   *)
(* (internal/state), the scanner's reconciliation helpers                  *)
(* (internal/scanner) and the run pipeline of cmd/camera-to-immich         *)
(* (run, runWithRAWProcessing with its worker pool, runJPGOnlyMode,        *)
(* clearStateFile).                                                        *)
(*                                                                         *)
(* Strings that the code takes apart are records: a path is                *)
(* [dir, base, ext] and stands for dir/base.ext, a file name is            *)
(* [base, ext] and stands for base.ext.  filepath.Base, filepath.Ext,      *)
(* strings.TrimSuffix and strings.ToUpper become projections and a table.  *)
(* A point of time is a natural number; 0 is Go's zero time.Time.          *)
(***************************************************************************)
EXTENDS Integers, Sequences, FiniteSets, TLC

-----------------------------------------------------------------------------
(* Bounds of the model *)

\* time.Now() returns values in 1..MaxClock
MaxClock == 2

\* number of runs of the program in one behaviour
MaxRuns == 2

\* number of runs when the same command is repeated on an unchanged card
MaxLimitRuns == 3

\* the values of -limit in those runs are 1..MaxLimit
MaxLimit == 2

-----------------------------------------------------------------------------
(* Generic helpers on Go maps (functions) and slices (sequences) *)

EmptyMap == [x \in {} |-> 0]

MapPut(m, k, v) == [x \in DOMAIN m \cup {k} |-> IF x = k THEN v ELSE m[x]]

MapDelete(m, k) == [x \in DOMAIN m \ {k} |-> m[x]]

\* m[k] of a Go map[string]bool: false for a missing key
MapBool(m, k) == k \in DOMAIN m /\ m[k]

Range(s) == {s[i] : i \in 1..Len(s)}

Min(a, b) == IF a < b THEN a ELSE b

-----------------------------------------------------------------------------
(* The files of the model *)

\* filepath.Base of a path, as a name record
BaseOf(p) == [base |-> p.base, ext |-> p.ext]

\* the empty string, as a path and as a file name
NoPath == [dir |-> "", base |-> "", ext |-> ""]

NoName == [base |-> "", ext |-> ""]

\* strings.ToUpper on the extensions that occur
ToUpper(e) ==
    CASE e = "orf" -> "ORF"
      [] e = "jpg" -> "JPG"
      [] e = "dng" -> "DNG"
      [] OTHER -> e

\* Everything that can be on the card, in the order filepath.Walk(<root>)
\* visits it (lexical per directory: "B.orf" < "DCIM";
\* inside DCIM "._A.ORF" < "A.JPG" < "A.ORF" < "C.ORF").
AllPaths ==
    << [dir |-> "", base |-> "B", ext |-> "orf"],
       [dir |-> "", base |-> "C", ext |-> "JPG"],
       [dir |-> "DCIM", base |-> "._A", ext |-> "ORF"],
       [dir |-> "DCIM", base |-> "A", ext |-> "JPG"],
       [dir |-> "DCIM", base |-> "A", ext |-> "ORF"],
       [dir |-> "DCIM", base |-> "C", ext |-> "ORF"],
       [dir |-> "PRIVATE", base |-> "B", ext |-> "ORF"] >>

\* files outside DCIM that only the cards below hold: the walk of the root
\* visits them once
RootJPG == [dir |-> "", base |-> "C", ext |-> "JPG"]
TwinRAW == [dir |-> "PRIVATE", base |-> "B", ext |-> "ORF"]

\* strings.HasPrefix(name, "._") on the base names that occur
HasHiddenPrefix(b) == b \in {"._A"}

\* the macOS artifact that accompanies DCIM/A.ORF on a card written by a Mac
HiddenPaths == {p \in Range(AllPaths) : HasHiddenPrefix(p.base)}

\* a card with every file of the camera, the macOS artifact included
FullCard == Range(AllPaths) \ {RootJPG, TwinRAW}

\* a card with two JPG files of different names
JPGCard == {[dir |-> "DCIM", base |-> "A", ext |-> "JPG"], RootJPG}

\* a card with two RAW files of one base name, in two directories and with
\* two spellings of the extension
TwinCard == {[dir |-> "", base |-> "B", ext |-> "orf"], TwinRAW}

\* the files that come and go between runs
CardPaths == {p \in FullCard \ HiddenPaths : p.base \in {"A", "B"}}

Names == {BaseOf(p) : p \in CardPaths}

\* cfg.GetRawExtensionsMap() of the default configuration (".ORF")
rawExtensions == [e \in {"ORF"} |-> TRUE]

\* rt.GetProfileName() of the configured profile, and the label of JPG-only mode
ProfileName == "vivid"

Profiles == {ProfileName, "jpg-only"}

CardIDs == {"", "card-1"}

-----------------------------------------------------------------------------
(* internal/state: the State type and its methods *)

ProcessedFile(filename, t, profileUsed) ==
    [Filename |-> filename, ProcessedAt |-> t, ProfileUsed |-> profileUsed]

\* the State that Load starts from (state.go 54-58)
NewState ==
    [Version |-> 2, CardID |-> "", LastRun |-> 0, ProcessedFiles |-> EmptyMap]

IsProcessed(s, filename) == filename \in DOMAIN s.ProcessedFiles

MarkProcessedStale(s, filename, profileUsed, outputPath, t1, t2) ==
    [s EXCEPT !.ProcessedFiles =
                  IF filename \in DOMAIN @ THEN @
                  ELSE MapPut(@, filename, ProcessedFile(filename, t1, profileUsed)),
              !.LastRun = t2]

\* a call that files the entry under the empty name
MarkProcessedUnnamed(s, filename, profileUsed, outputPath, t1, t2) ==
    [s EXCEPT !.ProcessedFiles =
                  MapPut(@, NoName, ProcessedFile(NoName, t1, profileUsed)),
              !.LastRun = t2]

\* a call that files the entry under the name and leaves the record's
\* Filename empty
MarkProcessedMisfiled(s, filename, profileUsed, outputPath, t1, t2) ==
    [s EXCEPT !.ProcessedFiles =
                  MapPut(@, filename, ProcessedFile(NoName, t1, profileUsed)),
              !.LastRun = t2]

\* t1 and t2 are the values of the two time.Now() calls
MarkProcessed(s, filename, profileUsed, outputPath, t1, t2) ==
    [s EXCEPT !.ProcessedFiles =
                  MapPut(@, filename, ProcessedFile(filename, t1, profileUsed)),
              !.LastRun = t2]

GetProcessedFilesMap(s) == [f \in DOMAIN s.ProcessedFiles |-> TRUE]

GetProcessedCount(s) == Cardinality(DOMAIN s.ProcessedFiles)

\* the range loop of SyncWithCard over the keys not yet visited
RECURSIVE SyncLoop(_, _, _, _)
SyncLoop(pf, keys, filesOnCard, removed) ==
    IF keys = {} THEN [ProcessedFiles |-> pf, removed |-> removed]
    ELSE LET filename == CHOOSE k \in keys : TRUE
         IN  IF ~MapBool(filesOnCard, filename)
             THEN SyncLoop(MapDelete(pf, filename), keys \ {filename},
                           filesOnCard, removed + 1)
             ELSE SyncLoop(pf, keys \ {filename}, filesOnCard, removed)

SyncWithCardKeepsAll(s, filesOnCard) ==
    [state |-> s, removed |-> 0]

\* result: the state after the call and the returned count
SyncWithCard(s, filesOnCard) ==
    LET r == SyncLoop(s.ProcessedFiles, DOMAIN s.ProcessedFiles, filesOnCard, 0)
    IN  [state |-> [s EXCEPT !.ProcessedFiles = r.ProcessedFiles],
         removed |-> r.removed]

SetCardID(s, id) == [s EXCEPT !.CardID = id]

\* a clear that forgets the card but keeps the entries
ClearKeepsEntries(s) ==
    [state |-> [s EXCEPT !.CardID = "", !.LastRun = 0],
     removed |-> Cardinality(DOMAIN s.ProcessedFiles)]

\* result: the state after the call and the returned count
Clear(s) ==
    [state |-> [s EXCEPT !.ProcessedFiles = EmptyMap, !.CardID = "", !.LastRun = 0],
     removed |-> Cardinality(DOMAIN s.ProcessedFiles)]

-----------------------------------------------------------------------------
(* The state file: json.MarshalIndent / json.Unmarshal of a State.          *)
(* A JSON object is a function from its keys; a key that omitempty drops   *)
(* is absent from the domain.                                              *)

Field(k, v) == [x \in {k} |-> v]

\* an encoding that leaves the profile out
MarshalProcessedFileNoProfile(r) ==
    [filename |-> r.Filename, processed_at |-> r.ProcessedAt]

MarshalProcessedFile(r) ==
    [filename |-> r.Filename, processed_at |-> r.ProcessedAt]
        @@ (IF r.ProfileUsed = "" THEN EmptyMap ELSE Field("profile_used", r.ProfileUsed))

MarshalState(s) ==
    [version |-> s.Version,
     last_run |-> s.LastRun,
     processed_files |->
         [f \in DOMAIN s.ProcessedFiles |-> MarshalProcessedFile(s.ProcessedFiles[f])]]
        @@ (IF s.CardID = "" THEN EmptyMap ELSE Field("card_id", s.CardID))

UnmarshalProcessedFile(o) ==
    [Filename |-> IF "filename" \in DOMAIN o THEN o.filename ELSE NoName,
     ProcessedAt |-> IF "processed_at" \in DOMAIN o THEN o.processed_at ELSE 0,
     ProfileUsed |-> IF "profile_used" \in DOMAIN o THEN o.profile_used ELSE ""]

\* json.Unmarshal(data, state) into the pre-filled state s0: a key of the
\* document overwrites the field, a missing key leaves it
UnmarshalState(doc, s0) ==
    [Version |-> IF "version" \in DOMAIN doc THEN doc.version ELSE s0.Version,
     CardID |-> IF "card_id" \in DOMAIN doc THEN doc.card_id ELSE s0.CardID,
     LastRun |-> IF "last_run" \in DOMAIN doc THEN doc.last_run ELSE s0.LastRun,
     ProcessedFiles |->
         IF "processed_files" \in DOMAIN doc
         THEN [f \in DOMAIN doc.processed_files |->
                   UnmarshalProcessedFile(doc.processed_files[f])]
              @@ s0.ProcessedFiles
         ELSE s0.ProcessedFiles]

\* the file system's answers for the state file
MissingFile == [kind |-> "missing"]

CorruptFile == [kind |-> "corrupt"]

StateFile(doc) == [kind |-> "file", doc |-> doc]

\* a current-schema document whose "processed_files" is null; doc holds its
\* other keys
NullMapFile(doc) == [kind |-> "nullmap", doc |-> doc]

\* a legacy document: "processed_files" is a list of entries
LegacyFile(list, t) ==
    [kind |-> "legacy", doc |-> [last_processed_timestamp |-> t, processed_files |-> list]]

\* os.MkdirAll or os.ReadFile fails with something else than "not exist"
UnreadableFile == [kind |-> "unreadable"]

\* what State.Save leaves on disk when os.WriteFile succeeds
Save(s) == StateFile(MarshalState(s))

\* os.WriteFile of State.Save: the new document, or an error that leaves the
\* old file (open failed) or a truncated one (the write failed)
SaveResults(s, old, faults) ==
    {[err |-> FALSE, file |-> Save(s)]}
        \cup (IF "save" \in faults
              THEN {[err |-> TRUE, file |-> old], [err |-> TRUE, file |-> CorruptFile]}
              ELSE {})

\* Load 81-86: the legacy list becomes the mapping, a later entry of a file
\* name replacing an earlier one
\* a migration in which the first entry of a file name counts
RECURSIVE MigrateListKeepsFirst(_, _)
MigrateListKeepsFirst(list, pf) ==
    IF list = << >> THEN pf
    ELSE LET e == UnmarshalProcessedFile(Head(list))
         IN  MigrateListKeepsFirst(Tail(list),
                                   IF e.Filename \in DOMAIN pf THEN pf
                                   ELSE MapPut(pf, e.Filename, e))

RECURSIVE MigrateList(_, _)
MigrateList(list, pf) ==
    IF list = << >> THEN pf
    ELSE LET e == UnmarshalProcessedFile(Head(list))
         IN  MigrateList(Tail(list), MapPut(pf, e.Filename, e))

Migrate(doc) ==
    [Version |-> 2, CardID |-> "",
     LastRun |-> IF "last_processed_timestamp" \in DOMAIN doc
                 THEN doc.last_processed_timestamp ELSE 0,
     ProcessedFiles |-> MigrateList(doc.processed_files, EmptyMap)]

\* a load that would leave a nil map in place
NilAfterLoadKept(isNil) == isNil

\* Load 98-100: a nil map is replaced by an empty one
NilAfterLoad(isNil) == FALSE

\* one outcome of Load
LoadResult(err, s, isNil, legacy, file) ==
    [err |-> err, state |-> s, nilMap |-> isNil, legacy |-> legacy, file |-> file]

\* Load: its outcomes [err, state, nilMap, legacy, file]. state is meaningful
\* when err is FALSE, nilMap says that state.ProcessedFiles is nil, legacy
\* that the legacy branch was taken, file is the state file after the call
\* (the legacy branch writes the migrated state back and ignores a failure).
LoadResults(file, faults) ==
    CASE file.kind = "missing" -> {LoadResult(FALSE, NewState, FALSE, FALSE, file)}
      [] file.kind = "file" ->
            {LoadResult(FALSE, UnmarshalState(file.doc, NewState),
                        NilAfterLoad(FALSE), FALSE, file)}
      [] file.kind = "nullmap" ->
            {LoadResult(FALSE,
                        [UnmarshalState(file.doc, NewState) EXCEPT !.ProcessedFiles = EmptyMap],
                        NilAfterLoad(TRUE), FALSE, file)}
      [] file.kind = "legacy" ->
            {LoadResult(FALSE, Migrate(file.doc), FALSE, TRUE, w.file) :
                w \in SaveResults(Migrate(file.doc), file, faults)}
      [] OTHER -> {LoadResult(TRUE, NewState, FALSE, FALSE, file)}

\* Load when every write succeeds
Load(file) == CHOOSE r \in LoadResults(file, {}) : TRUE

-----------------------------------------------------------------------------
(* internal/scanner *)

\* the FileInfo the walk callback builds for a path (scanner 395-405)
FileInfo(p) ==
    [Path |-> p, Name |-> BaseOf(p), BaseName |-> p.base, Extension |-> ToUpper(p.ext)]

\* filepath.Walk(searchPath): the files of the card under searchPath, in
\* walk order; the root is "" and contains every directory
Walk(files, searchPath) ==
    LET Under(p) == p \in files /\ (searchPath = "" \/ p.dir = searchPath)
    IN  SelectSeq(AllPaths, Under)

\* os.Stat(searchPath) finds the directory
DirExists(files, searchPath) ==
    searchPath = "" \/ \E p \in files : p.dir = searchPath

\* the files the walks of ScanForImages visit, hidden ones skipped
Visited(files, searchPaths) ==
    LET Shown(p) == ~HasHiddenPrefix(p.base)
        RECURSIVE Go(_)
        Go(i) == IF i > Len(searchPaths) THEN << >>
                 ELSE (IF DirExists(files, searchPaths[i])
                       THEN SelectSeq(Walk(files, searchPaths[i]), Shown)
                       ELSE << >>) \o Go(i + 1)
    IN  Go(1)

\* searchPaths is <root>/DCIM, then <root>
ScanForImages(files) ==
    LET seen == Visited(files, << "DCIM", "" >>)
        infos == [i \in 1..Len(seen) |-> FileInfo(seen[i])]
        IsRAW(f) == MapBool(rawExtensions, f.Extension)
        IsJPG(f) == ~MapBool(rawExtensions, f.Extension) /\ f.Extension \in {"JPG", "JPEG"}
    IN  [RAWFiles |-> SelectSeq(infos, IsRAW), JPGFiles |-> SelectSeq(infos, IsJPG)]

\* nil when no JPG has the RAW file's base name
NoFile == [Path |-> NoPath, Name |-> NoName, BaseName |-> "", Extension |-> ""]

\* a search that finds nothing
FindMatchingJPGNone(rawFile, jpgFiles) == NoFile

FindMatchingJPG(rawFile, jpgFiles) ==
    LET hits == {i \in 1..Len(jpgFiles) : jpgFiles[i].BaseName = rawFile.BaseName}
    IN  IF hits = {} THEN NoFile
        ELSE jpgFiles[CHOOSE i \in hits : \A j \in hits : i <= j]

FilterNewFilesKeepsAll(files, processedFiles) == files

FilterNewFiles(files, processedFiles) ==
    LET IsNew(f) == ~MapBool(processedFiles, f.Name)
    IN  SelectSeq(files, IsNew)

\* run 266-272: the names of every RAW and JPG file found
FilesOnCard(scan) ==
    [n \in {scan.RAWFiles[i].Name : i \in 1..Len(scan.RAWFiles)}
           \cup {scan.JPGFiles[i].Name : i \in 1..Len(scan.JPGFiles)} |-> TRUE]

-----------------------------------------------------------------------------
(* The program state *)

VARIABLES
    card,               \* the visible files on the inserted card
    disk,               \* the state file
    now,                \* the clock
    outDir,             \* the files in cfg.OutputDirectory
    dngDir,             \* the files in the DNG output directory
    appState,           \* the State in memory
    hist,               \* the last call of a State method: arguments, result, state before
    pc,                 \* where the main goroutine stands
    runs,               \* program runs finished so far
    cfg,                \* the run's Config and what the host offers
    exit,               \* how run ended
    scanResult,
    newRAWFiles,
    newJPGFiles,
    jpgIndex,           \* i of the upload loop of runJPGOnlyMode
    numWorkers,
    jobs,               \* the jobs channel's buffer
    jobsClosed,
    sent,               \* i of the send loop
    workers,            \* the worker goroutines
    results,            \* the results channel's buffer
    resultsClosed,
    processedCount,
    processedJPGs,
    cameraJPGs,
    dngFilesToCleanup,
    uploads,            \* the calls of im.UploadFolder / im.UploadFile of this run
    deleted,            \* the paths os.Remove deleted in this run
    loaded,             \* the file names of the mapping Load returned
    drained,            \* the results the consumer loop has received
    took,               \* per job index: how often a worker received it
    emits,              \* per job index: how many results were sent for it
    inflight,           \* external converter calls running now
    absentSeen          \* recorded names a run found missing from the card, not marked since

envVars == << card, disk, now, outDir, dngDir >>

storeVars == << appState, hist >>

scanVars == << scanResult, newRAWFiles, newJPGFiles, jpgIndex, loaded >>

poolVars == << numWorkers, jobs, jobsClosed, sent, workers, results, resultsClosed,
               took, emits, inflight >>

consumerVars == << processedCount, processedJPGs, cameraJPGs, dngFilesToCleanup, drained >>

vars == << envVars, storeVars, pc, runs, cfg, exit, scanVars, poolVars, consumerVars,
           uploads, deleted, absentSeen >>

\* the macOS artifacts travel with the file they belong to
OnCard(files) ==
    files \cup {h \in HiddenPaths :
                   \E p \in files : p.dir = h.dir /\ p.ext = h.ext /\ h.base = "._A" /\ p.base = "A"}

NoHist == [op |-> "none"]

\* the record of a call of a State method is dropped when the next run
\* filters the catalog; what is recorded about the repeated command or the
\* stop of the run before stays
Forget(h) == IF h.op \in {"repeat", "killed"} THEN h ELSE NoHist

\* when a run returns only the repeated command is still of interest
ForgetAtExit(h) == IF h.op = "repeat" THEN h ELSE NoHist

DefaultConfig ==
    [ProcessRAWFiles |-> TRUE, DryRun |-> FALSE, SkipUpload |-> FALSE, Limit |-> 0,
     Workers |-> 1, ConvertToDNG |-> FALSE, DNGOutputDirectory |-> "",
     CleanupDNGFiles |-> TRUE, CleanupAfterUpload |-> TRUE, UploadCameraJPGs |-> TRUE,
     \* the host: runtime.NumCPU(), which tools are installed, which calls may fail
     NumCPU |-> 2, DriveFound |-> TRUE, RawTherapeeFound |-> TRUE,
     DNGConverterFound |-> TRUE, ImmichFound |-> TRUE, Faults |-> {},
     \* the RAW files on which the DNG converter and RawTherapee fail every time
     FailDNG |-> {}, FailRT |-> {}]

NoJob == [index |-> -1, rawFile |-> NoFile]

\* the variables of one run, before run is called
RunReset ==
    /\ appState = NewState
    /\ cfg = DefaultConfig
    /\ exit = ""
    /\ scanResult = [RAWFiles |-> << >>, JPGFiles |-> << >>]
    /\ newRAWFiles = << >>
    /\ newJPGFiles = << >>
    /\ jpgIndex = 0
    /\ loaded = {}
    /\ numWorkers = 0
    /\ jobs = << >>
    /\ jobsClosed = FALSE
    /\ sent = 0
    /\ workers = << >>
    /\ results = << >>
    /\ resultsClosed = FALSE
    /\ took = << >>
    /\ emits = << >>
    /\ inflight = 0
    /\ processedCount = 0
    /\ processedJPGs = << >>
    /\ cameraJPGs = << >>
    /\ dngFilesToCleanup = << >>
    /\ drained = << >>
    /\ uploads = << >>
    /\ deleted = {}

\* the same, as the effect of leaving a run
RunResetNext ==
    /\ appState' = NewState
    /\ cfg' = DefaultConfig
    /\ exit' = ""
    /\ scanResult' = [RAWFiles |-> << >>, JPGFiles |-> << >>]
    /\ newRAWFiles' = << >>
    /\ newJPGFiles' = << >>
    /\ jpgIndex' = 0
    /\ loaded' = {}
    /\ numWorkers' = 0
    /\ jobs' = << >>
    /\ jobsClosed' = FALSE
    /\ sent' = 0
    /\ workers' = << >>
    /\ results' = << >>
    /\ resultsClosed' = FALSE
    /\ took' = << >>
    /\ emits' = << >>
    /\ inflight' = 0
    /\ processedCount' = 0
    /\ processedJPGs' = << >>
    /\ cameraJPGs' = << >>
    /\ dngFilesToCleanup' = << >>
    /\ drained' = << >>
    /\ uploads' = << >>
    /\ deleted' = {}

runVars == << appState, cfg, exit, scanVars, poolVars, consumerVars, uploads, deleted >>

-----------------------------------------------------------------------------
(* The State methods, called in any order on one State (SpecStore) *)

Tick ==
    /\ now < MaxClock
    /\ now' = now + 1
    /\ UNCHANGED << card, disk, outDir, dngDir, storeVars, pc, runs, cfg, exit, scanVars,
                    poolVars, consumerVars, uploads, deleted, absentSeen >>

storeFrame == << card, disk, outDir, dngDir, pc, runs, cfg, exit, scanVars, poolVars,
                 consumerVars, uploads, deleted, absentSeen >>

CallMarkProcessed ==
    /\ pc = "store"
    /\ \E filename \in Names, profileUsed \in Profiles, t2 \in now..MaxClock :
          /\ appState' = MarkProcessed(appState, filename, profileUsed, NoPath, now, t2)
          /\ now' = t2
          /\ hist' = [op |-> "mark", filename |-> filename, profileUsed |-> profileUsed,
                      t1 |-> now, t2 |-> t2, pre |-> appState]
    /\ UNCHANGED storeFrame

CallSyncWithCard ==
    /\ pc = "store"
    /\ \E present \in SUBSET Names :
          LET r == SyncWithCard(appState, [n \in present |-> TRUE])
          IN  /\ appState' = r.state
              /\ hist' = [op |-> "sync", present |-> present, ret |-> r.removed,
                          pre |-> appState]
    /\ UNCHANGED << now, storeFrame >>

CallSetCardID ==
    /\ pc = "store"
    /\ \E id \in CardIDs :
          /\ appState' = SetCardID(appState, id)
          /\ hist' = [op |-> "setCardID", pre |-> appState]
    /\ UNCHANGED << now, storeFrame >>

CallClear ==
    /\ pc = "store"
    /\ LET r == Clear(appState)
       IN  /\ appState' = r.state
           /\ hist' = [op |-> "clear", ret |-> r.removed, pre |-> appState]
    /\ UNCHANGED << now, storeFrame >>

InitStore ==
    /\ RunReset
    /\ card = {}
    /\ disk = MissingFile
    /\ now = 1
    /\ outDir = {}
    /\ dngDir = {}
    /\ hist = NoHist
    /\ pc = "store"
    /\ runs = 0
    /\ absentSeen = {}

NextStore == Tick \/ CallMarkProcessed \/ CallSyncWithCard \/ CallSetCardID \/ CallClear

SpecStore == InitStore /\ [][NextStore]_vars

-----------------------------------------------------------------------------
(* Claims about the State methods *)

\* C9: syncWithCard(present) removes exactly the entries whose filename is not
\* in present and returns how many it removed; every entry whose filename is in
\* present keeps its record (processedAt, profileUsed), and lastRunAt, cardID
\* and formatVersion are unchanged.
C9_SyncRemovesExactlyAbsent ==
    hist.op = "sync" =>
        LET before == hist.pre.ProcessedFiles
            after == appState.ProcessedFiles
        IN  /\ DOMAIN after = DOMAIN before \cap hist.present
            /\ \A f \in DOMAIN after : after[f] = before[f]
            /\ hist.ret = Cardinality(DOMAIN before \ hist.present)
            /\ appState.LastRun = hist.pre.LastRun
            /\ appState.CardID = hist.pre.CardID
            /\ appState.Version = hist.pre.Version

\* the spec's scenario generalised: two entries, one of them absent from the
\* card, a card identity and a last run set; the call removed one and returned 1
C9_Witness ==
    /\ hist.op = "sync"
    /\ Cardinality(DOMAIN hist.pre.ProcessedFiles) = 2
    /\ Cardinality(DOMAIN appState.ProcessedFiles) = 1
    /\ hist.ret = 1
    /\ DOMAIN appState.ProcessedFiles \subseteq hist.present
    /\ appState.CardID # ""
    /\ appState.LastRun > 0
    /\ \E f \in DOMAIN appState.ProcessedFiles : IsProcessed(appState, f)

\* C10: markProcessed is an upsert: after the call the file name has the one
\* entry of this call (its time stamp and profile), also when an earlier call
\* had entered the name before; every other entry is unchanged, no other name
\* is added or dropped, and lastRunAt is the call's (later) time.
C10_MarkIsIdempotentUpsert ==
    hist.op = "mark" =>
        LET before == hist.pre.ProcessedFiles
            after == appState.ProcessedFiles
        IN  /\ DOMAIN after = DOMAIN before \cup {hist.filename}
            /\ after[hist.filename] =
                   ProcessedFile(hist.filename, hist.t1, hist.profileUsed)
            /\ \A f \in DOMAIN before \ {hist.filename} : after[f] = before[f]
            /\ appState.LastRun = hist.t2
            /\ hist.t2 >= hist.t1
            /\ hist.t2 >= hist.pre.LastRun

\* the second call for a name: an earlier call entered it with another time
\* stamp and another profile, and another entry is present
C10_Witness ==
    /\ hist.op = "mark"
    /\ hist.filename \in DOMAIN hist.pre.ProcessedFiles
    /\ hist.pre.ProcessedFiles[hist.filename].ProcessedAt < hist.t1
    /\ hist.pre.ProcessedFiles[hist.filename].ProfileUsed # hist.profileUsed
    /\ hist.pre.LastRun < hist.t2
    /\ Cardinality(DOMAIN appState.ProcessedFiles) = 2

-----------------------------------------------------------------------------
(* cmd/camera-to-immich: run *)

\* run returns: a fatal error, or nil after "nonew", "dry" or "ok"
Return(how) ==
    /\ pc' = "done"
    /\ exit' = how

\* run 222-250: find the drive, load the state
StartRunWithin(configs, maxRuns) ==
    /\ pc = "idle"
    /\ runs < maxRuns
    /\ \E c \in configs :
          /\ cfg' = c
          /\ IF ~c.DriveFound
             THEN /\ Return("fatal")
                  /\ UNCHANGED << disk, appState, loaded >>
             ELSE \E r \in LoadResults(disk, c.Faults) :
                     /\ disk' = r.file
                     /\ IF r.err
                        THEN /\ Return("fatal")
                             /\ UNCHANGED << appState, loaded >>
                        ELSE /\ pc' = "loaded"
                             /\ appState' = r.state
                             /\ loaded' = DOMAIN r.state.ProcessedFiles
                             /\ exit' = ""
    /\ UNCHANGED << card, now, outDir, dngDir, hist, runs, scanResult, newRAWFiles, newJPGFiles, jpgIndex,
                    poolVars, consumerVars, uploads, deleted, absentSeen >>

\* a run of the first MaxRuns
StartRun(configs) == StartRunWithin(configs, MaxRuns)

\* run 252-301: scan the card, forget what left it, set up the uploader
ScanAndSync ==
    /\ pc = "loaded"
    /\ LET scan == ScanForImages(OnCard(card))
           filesOnCard == FilesOnCard(scan)
           r == SyncWithCard(appState, filesOnCard)
       IN  /\ scanResult' = scan
           /\ appState' = r.state
           /\ absentSeen' = absentSeen \cup (DOMAIN appState.ProcessedFiles \ DOMAIN filesOnCard)
    /\ IF ~cfg.SkipUpload /\ ~cfg.ImmichFound
       THEN Return("fatal")
       ELSE pc' = "synced" /\ UNCHANGED exit
    /\ UNCHANGED << envVars, hist, runs, cfg, newRAWFiles, newJPGFiles, jpgIndex, loaded,
                    poolVars, consumerVars, uploads, deleted >>

\* runWithRAWProcessing 319-321; the record of a clear-state command ends
\* with the filtering of the run that follows it
FilterRAW ==
    /\ pc = "synced"
    /\ cfg.ProcessRAWFiles
    /\ newRAWFiles' = FilterNewFiles(scanResult.RAWFiles, GetProcessedFilesMap(appState))
    /\ pc' = "filtered"
    /\ hist' = Forget(hist)
    /\ UNCHANGED << envVars, appState, runs, cfg, exit, scanResult, newJPGFiles, jpgIndex,
                    loaded, poolVars, consumerVars, uploads, deleted, absentSeen >>

\* a limit that is not applied
ApplyLimitIgnored(files, limit) == files

\* a limit that keeps the last files
ApplyLimitFromEnd(files, limit) ==
    IF limit > 0 /\ Len(files) > limit
    THEN SubSeq(files, Len(files) - limit + 1, Len(files)) ELSE files

\* newRAWFiles[:cfg.Limit]
ApplyLimit(files, limit) ==
    IF limit > 0 /\ Len(files) > limit THEN SubSeq(files, 1, limit) ELSE files

defaultMaxWorkers == 4

\* a pool with one worker per file
NumWorkersPerFile(configured, numCPU, n) == n

NumWorkersUnclamped(configured, numCPU, n) ==
    IF configured <= 0
    THEN (IF numCPU > defaultMaxWorkers THEN defaultMaxWorkers ELSE numCPU)
    ELSE configured

\* runWithRAWProcessing 412-424
NumWorkers(configured, numCPU, n) ==
    LET w == IF configured <= 0
             THEN (IF numCPU > defaultMaxWorkers THEN defaultMaxWorkers ELSE numCPU)
             ELSE configured
    IN  IF w > n THEN n ELSE w

\* a worker goroutine that stands at "for job := range jobs"
IdleWorker == [pc |-> "recv", job |-> NoJob, dngPath |-> NoPath]

\* a dry run that converts all the same
DryRunIgnored(c) == FALSE

\* "if cfg.DryRun { ... return nil }" (336-342, 683-689)
DryRunReturns(c) == c.DryRun

\* converters that are never looked for
ToolsUnchecked(c) == TRUE

\* NewDNGConverter (when cfg.ConvertToDNG) and NewRawTherapee return no error
\* (344-398): the executable is there, the profile exists, the output
\* directory can be made
ToolsReady(c) == (c.ConvertToDNG => c.DNGConverterFound) /\ c.RawTherapeeFound

\* runWithRAWProcessing 323-452: nothing new, the limit, the dry run, the
\* converters, the channels and the workers
PreparePool ==
    /\ pc = "filtered"
    /\ LET limited == ApplyLimit(newRAWFiles, cfg.Limit)
           n == Len(limited)
           w == NumWorkers(cfg.Workers, cfg.NumCPU, n)
       IN  IF Len(newRAWFiles) = 0
           THEN /\ Return("nonew")
                /\ UNCHANGED << newRAWFiles, poolVars >>
           ELSE /\ newRAWFiles' = limited
                /\ IF DryRunReturns(cfg)
                   THEN Return("dry") /\ UNCHANGED poolVars
                   ELSE IF ~ToolsReady(cfg)
                   THEN Return("fatal") /\ UNCHANGED poolVars
                   ELSE /\ pc' = "send"
                        /\ UNCHANGED exit
                        /\ numWorkers' = w
                        /\ workers' = [i \in 1..w |-> IdleWorker]
                        /\ took' = [i \in 1..n |-> 0]
                        /\ emits' = [i \in 1..n |-> 0]
                        /\ UNCHANGED << jobs, jobsClosed, sent, results, resultsClosed,
                                        inflight >>
    /\ UNCHANGED << envVars, storeVars, runs, cfg, scanResult, newJPGFiles, jpgIndex, loaded,
                    consumerVars, uploads, deleted, absentSeen >>

-----------------------------------------------------------------------------
(* runWithRAWProcessing: the worker pool *)

\* what a call that can fail may answer in this run
Outcomes(fault) == IF fault \in cfg.Faults THEN {TRUE, FALSE} ELSE {TRUE}

\* DNGConverter.ConvertFile: OutputDir/<base of the input>.dng
DNGOutputPath(inputPath) == [dir |-> "dng", base |-> inputPath.base, ext |-> "dng"]

\* RawTherapee.ProcessFile: OutputDir/<base of the input>.jpg
OutputPath(inputPath) == [dir |-> "out", base |-> inputPath.base, ext |-> "jpg"]

Bump(counts, i) == [counts EXCEPT ![i] = @ + 1]

\* a channel that hands out the newest element first
EnqueueFront(q, job) == << job >> \o q

\* a send on a buffered channel: the element goes to the end of the buffer
Enqueue(q, job) == Append(q, job)

\* "jobs <- job" of the send loop; the channel holds len(newRAWFiles) jobs
Send ==
    /\ pc = "send"
    /\ sent < Len(newRAWFiles)
    /\ Len(jobs) < Len(newRAWFiles)
    /\ jobs' = Enqueue(jobs, [index |-> sent, rawFile |-> newRAWFiles[sent + 1]])
    /\ sent' = sent + 1
    /\ UNCHANGED << envVars, storeVars, pc, runs, cfg, exit, scanVars, numWorkers,
                    jobsClosed, workers, results, resultsClosed, took, emits, inflight,
                    consumerVars, uploads, deleted, absentSeen >>

\* close(jobs), and the goroutine that waits for the workers is started
CloseJobs ==
    /\ pc = "send"
    /\ sent = Len(newRAWFiles)
    /\ jobsClosed' = TRUE
    /\ pc' = "drain"
    /\ UNCHANGED << envVars, storeVars, runs, cfg, exit, scanVars, numWorkers, jobs, sent,
                    workers, results, resultsClosed, took, emits, inflight, consumerVars,
                    uploads, deleted, absentSeen >>

PoolRunning == pc \in {"send", "drain"}

\* a receive that leaves the job on the channel
ReceivedKeepsJob(q) == q

\* the rest of the channel after a receive
Received(q) == Tail(q)

\* "for job := range jobs" yields a job; the first converter call starts
WorkerReceive(w) ==
    /\ PoolRunning
    /\ workers[w].pc = "recv"
    /\ jobs # << >>
    /\ LET job == Head(jobs)
       IN  /\ jobs' = Received(jobs)
           /\ took' = Bump(took, job.index + 1)
           /\ workers' = [workers EXCEPT ![w] =
                             [pc |-> IF cfg.ConvertToDNG THEN "dng" ELSE "rt",
                              job |-> job, dngPath |-> NoPath]]
    /\ inflight' = inflight + 1
    /\ UNCHANGED << envVars, storeVars, pc, runs, cfg, exit, scanVars, numWorkers,
                    jobsClosed, sent, results, resultsClosed, emits, consumerVars, uploads,
                    deleted, absentSeen >>

\* the range loop ends on the closed, empty channel: wg.Done()
WorkerExit(w) ==
    /\ PoolRunning
    /\ workers[w].pc = "recv"
    /\ jobs = << >>
    /\ jobsClosed
    /\ workers' = [workers EXCEPT ![w].pc = "done"]
    /\ UNCHANGED << envVars, storeVars, pc, runs, cfg, exit, scanVars, numWorkers, jobs,
                    jobsClosed, sent, results, resultsClosed, took, emits, inflight,
                    consumerVars, uploads, deleted, absentSeen >>

\* a failed DNG conversion that is reported as a success
DNGFailureNoError(job) ==
    [index |-> job.index, rawFile |-> job.rawFile, outputPath |-> NoPath,
     dngPath |-> NoPath, err |-> "nil"]

\* the result a worker sends after a failed DNG conversion (464-469)
DNGFailure(job) ==
    [index |-> job.index, rawFile |-> job.rawFile, outputPath |-> NoPath,
     dngPath |-> NoPath, err |-> "DNG conversion failed"]

\* the result a worker sends after rt.ProcessFile returned (481-488):
\* ProcessFile returns "" together with an error
ProcessResult(job, dngPath, inputPath, ok) ==
    [index |-> job.index, rawFile |-> job.rawFile,
     outputPath |-> IF ok THEN OutputPath(inputPath) ELSE NoPath,
     dngPath |-> dngPath,
     err |-> IF ok THEN "nil" ELSE "rawtherapee-cli failed"]

\* a worker that returns on a failed job
AfterFailureStops == "done"

\* "continue": after a failed job the worker receives the next one
AfterFailure == "recv"

\* what a converter call on the RAW file at path may answer: an error every
\* time for the files of always, else what the faults of the run allow
ConvertOutcomes(always, path) ==
    IF path \in always THEN {FALSE} ELSE Outcomes("convert")

\* dngConverter.ConvertFile returns
WorkerDNG(w) ==
    /\ PoolRunning
    /\ workers[w].pc = "dng"
    /\ \E ok \in ConvertOutcomes(cfg.FailDNG, workers[w].job.rawFile.Path) :
          LET job == workers[w].job
              dngPath == DNGOutputPath(job.rawFile.Path)
          IN  IF ok
              THEN /\ workers' = [workers EXCEPT ![w].pc = "rt", ![w].dngPath = dngPath]
                   /\ dngDir' = dngDir \cup {dngPath}
                   /\ UNCHANGED << results, emits, inflight >>
              ELSE /\ Len(results) < Len(newRAWFiles)
                   /\ results' = Append(results, DNGFailure(job))
                   /\ emits' = Bump(emits, job.index + 1)
                   /\ inflight' = inflight - 1
                   /\ workers' = [workers EXCEPT ![w] =
                                     [pc |-> AfterFailure, job |-> NoJob, dngPath |-> NoPath]]
                   /\ UNCHANGED dngDir
    /\ UNCHANGED << card, disk, now, outDir, storeVars, pc, runs, cfg, exit, scanVars,
                    numWorkers, jobs, jobsClosed, sent, resultsClosed, took, consumerVars,
                    uploads, deleted, absentSeen >>

\* rt.ProcessFile returns and the result is sent
WorkerRT(w) ==
    /\ PoolRunning
    /\ workers[w].pc = "rt"
    /\ Len(results) < Len(newRAWFiles)
    /\ \E ok \in ConvertOutcomes(cfg.FailRT, workers[w].job.rawFile.Path) :
          LET job == workers[w].job
              dngPath == workers[w].dngPath
              inputPath == IF cfg.ConvertToDNG THEN dngPath ELSE job.rawFile.Path
              res == ProcessResult(job, dngPath, inputPath, ok)
          IN  /\ results' = Append(results, res)
              /\ emits' = Bump(emits, job.index + 1)
              /\ outDir' = IF ok THEN outDir \cup {res.outputPath} ELSE outDir
              /\ workers' = [workers EXCEPT ![w] =
                                [pc |-> IF ok THEN "recv" ELSE AfterFailure,
                                 job |-> NoJob, dngPath |-> NoPath]]
    /\ inflight' = inflight - 1
    /\ UNCHANGED << card, disk, now, dngDir, storeVars, pc, runs, cfg, exit, scanVars,
                    numWorkers, jobs, jobsClosed, sent, resultsClosed, took, consumerVars,
                    uploads, deleted, absentSeen >>

\* a wait that returns when one worker is done
OneWorkerDone == \E w \in DOMAIN workers : workers[w].pc = "done"

\* wg.Wait() can return: every worker has called wg.Done()
AllWorkersDone == \A w \in DOMAIN workers : workers[w].pc = "done"

\* wg.Wait() returns; close(results)
CloseResults ==
    /\ pc = "drain"
    /\ ~resultsClosed
    /\ AllWorkersDone
    /\ resultsClosed' = TRUE
    /\ UNCHANGED << envVars, storeVars, pc, runs, cfg, exit, scanVars, numWorkers, jobs,
                    jobsClosed, sent, workers, results, took, emits, inflight, consumerVars,
                    uploads, deleted, absentSeen >>

-----------------------------------------------------------------------------
(* runWithRAWProcessing: the consumer loop, the uploads, the cleanup, the save *)

\* a consumer that saves the State after every result
FileAfterResultSaved(file, s) == Save(s)

\* the state file after one iteration of the consumer loop, s being the State:
\* the loop never calls Save (510-540)
FileAfterResult(file, s) == file

\* a consumer that drops a result that arrives before those of earlier jobs
CollectsInOrder(result, count) == result.err = "nil" /\ result.index = count

\* "if result.err != nil { ...; continue }" (514-517): the consumer collects
\* the result of every conversion that returned no error, count results
\* having arrived before it
Collects(result, count) == result.err = "nil"

\* one iteration of "for result := range results" (510-540)
Drain ==
    /\ pc = "drain"
    /\ results # << >>
    /\ LET result == Head(results)
           matchingJPG == FindMatchingJPG(result.rawFile, scanResult.JPGFiles)
       IN  /\ results' = Tail(results)
           /\ processedCount' = processedCount + 1
           /\ drained' = Append(drained, result)
           /\ IF ~Collects(result, processedCount)
              THEN UNCHANGED << processedJPGs, dngFilesToCleanup, cameraJPGs, appState, now >>
              ELSE /\ processedJPGs' = Append(processedJPGs, result.outputPath)
                   /\ dngFilesToCleanup' =
                          IF result.dngPath # NoPath
                          THEN Append(dngFilesToCleanup, result.dngPath)
                          ELSE dngFilesToCleanup
                   /\ cameraJPGs' =
                          IF cfg.UploadCameraJPGs /\ matchingJPG # NoFile
                          THEN Append(cameraJPGs, matchingJPG.Path)
                          ELSE cameraJPGs
                   /\ \E t2 \in now..MaxClock :
                         /\ appState' = MarkProcessed(appState, result.rawFile.Name,
                                                      ProfileName, result.outputPath, now, t2)
                         /\ now' = t2
    /\ absentSeen' = IF Head(results).err = "nil"
                     THEN absentSeen \ {Head(results).rawFile.Name}
                     ELSE absentSeen
    /\ disk' = FileAfterResult(disk, appState')
    /\ UNCHANGED << card, outDir, dngDir, hist, pc, runs, cfg, exit, scanVars,
                    numWorkers, jobs, jobsClosed, sent, workers, resultsClosed, took, emits,
                    inflight, uploads, deleted >>

\* the range loop ends on the closed, empty channel
DrainEnd ==
    /\ pc = "drain"
    /\ results = << >>
    /\ resultsClosed
    /\ pc' = "upload"
    /\ UNCHANGED << envVars, storeVars, runs, cfg, exit, scanVars, poolVars, consumerVars,
                    uploads, deleted, absentSeen >>

\* copyFileSimple (749-765) returns nil ("ok"), or the error of os.Open or
\* os.Create ("nofile": nothing is written), or the error of ReadFrom
\* ("partial": the destination was created and stays behind, incomplete)
CopyOutcomes(n) ==
    IF "copy" \in cfg.Faults THEN [1..n -> {"ok", "nofile", "partial"}]
    ELSE {[i \in 1..n |-> "ok"]}

\* the scratch directory after the copy loop (575-580, 610-615): per file
\* name the destination as the last copy that created it left it
TempDir(paths, outcome) ==
    LET names == {BaseOf(paths[i]) : i \in 1..Len(paths)}
        Writes(n) == {i \in 1..Len(paths) : BaseOf(paths[i]) = n /\ outcome[i] # "nofile"}
        Last(n) == CHOOSE i \in Writes(n) : \A j \in Writes(n) : j <= i
    IN  [whole |-> {n \in names : Writes(n) # {} /\ outcome[Last(n)] = "ok"},
         partial |-> {n \in names : Writes(n) # {} /\ outcome[Last(n)] = "partial"},
         failed |-> {BaseOf(paths[i]) : i \in {j \in 1..Len(paths) : outcome[j] # "ok"}}]

\* a call of im.UploadFolder / im.UploadFile: the complete files and the
\* incomplete files of the directory handed over, and the names whose copy
\* returned an error
UploadCall(batch, ok, files, partial, failed) ==
    [batch |-> batch, ok |-> ok, files |-> files, partial |-> partial, failed |-> failed]

\* an upload of everything in the output directory
BatchCallsWholeDir(batch, paths) ==
    {<< UploadCall(batch, ok, {BaseOf(p) : p \in outDir}, {}, {}) >> :
        ok \in Outcomes("upload")}

\* the copy loop and the one UploadFolder call of a batch (567-592, 602-627):
\* os.MkdirTemp may fail (no call is made), a copy may fail, the upload may
\* fail
BatchCalls(batch, paths) ==
    {IF mk THEN LET d == TempDir(paths, outcome)
                IN  << UploadCall(batch, ok, d.whole, d.partial, d.failed) >>
           ELSE << >> :
        mk \in Outcomes("mkdir"),
        outcome \in CopyOutcomes(Len(paths)),
        ok \in Outcomes("upload")}

\* a run that ignores -skip-upload
SkipsUploadNever(c) == FALSE

\* cfg.SkipUpload as the conditions at 551, 595 and 631 read it
SkipsUpload(c) == c.SkipUpload

\* 551-593
UploadProcessed ==
    /\ pc = "upload"
    /\ IF ~SkipsUpload(cfg) /\ Len(processedJPGs) > 0
       THEN \E calls \in BatchCalls("processed", processedJPGs) : uploads' = uploads \o calls
       ELSE UNCHANGED uploads
    /\ pc' = "uploadCamera"
    /\ UNCHANGED << envVars, storeVars, runs, cfg, exit, scanVars, poolVars, consumerVars,
                    deleted, absentSeen >>

\* 595-628
UploadCamera ==
    /\ pc = "uploadCamera"
    /\ IF ~SkipsUpload(cfg) /\ Len(cameraJPGs) > 0 /\ cfg.UploadCameraJPGs
       THEN \E calls \in BatchCalls("camera", cameraJPGs) : uploads' = uploads \o calls
       ELSE UNCHANGED uploads
    /\ pc' = "cleanup"
    /\ UNCHANGED << envVars, storeVars, runs, cfg, exit, scanVars, poolVars, consumerVars,
                    deleted, absentSeen >>

\* the files a loop of os.Remove over paths takes out of dir
Removable(paths, dir) ==
    {Range(paths) \cap (dir \ stuck) :
        stuck \in (IF "remove" \in cfg.Faults THEN SUBSET Range(paths) ELSE {{}})}

\* 630-656
Cleanup ==
    /\ pc = "cleanup"
    /\ \E goneOut \in (IF cfg.CleanupAfterUpload /\ ~SkipsUpload(cfg) /\ Len(processedJPGs) > 0
                       THEN Removable(processedJPGs, outDir) ELSE {{}}),
          goneDNG \in (IF cfg.ConvertToDNG /\ cfg.CleanupDNGFiles /\ Len(dngFilesToCleanup) > 0
                       THEN Removable(dngFilesToCleanup, dngDir) ELSE {{}}) :
          /\ outDir' = outDir \ goneOut
          /\ dngDir' = dngDir \ goneDNG
          /\ deleted' = deleted \cup goneOut \cup goneDNG
    /\ pc' = "save"
    /\ UNCHANGED << card, disk, now, storeVars, runs, cfg, exit, scanVars, poolVars,
                    consumerVars, uploads, absentSeen >>

\* the DNG files go to a temporary directory of this run (352-361)
TempDNGDir == cfg.ProcessRAWFiles /\ cfg.ConvertToDNG /\ cfg.DNGOutputDirectory = ""

\* appState.Save() at the end of runWithRAWProcessing (658-665) and of
\* runJPGOnlyMode (716-723); on return the deferred os.RemoveAll (361) takes
\* the temporary DNG directory away
SaveState ==
    /\ pc = "save"
    /\ \E r \in SaveResults(appState, disk, cfg.Faults) :
          /\ disk' = r.file
          /\ Return(IF r.err THEN "fatal" ELSE "ok")
    /\ dngDir' = IF TempDNGDir THEN {} ELSE dngDir
    /\ deleted' = IF TempDNGDir THEN deleted \cup dngDir ELSE deleted
    /\ UNCHANGED << card, now, outDir, storeVars, runs, cfg, scanVars, poolVars,
                    consumerVars, uploads, absentSeen >>

-----------------------------------------------------------------------------
(* runJPGOnlyMode *)

\* 673-689
FilterJPG ==
    /\ pc = "synced"
    /\ ~cfg.ProcessRAWFiles
    /\ LET new == FilterNewFiles(scanResult.JPGFiles, GetProcessedFilesMap(appState))
       IN  /\ newJPGFiles' = new
           /\ IF Len(new) = 0 THEN Return("nonew")
              ELSE IF DryRunReturns(cfg) THEN Return("dry")
              ELSE pc' = "jpgloop" /\ UNCHANGED exit
    /\ jpgIndex' = 0
    /\ hist' = Forget(hist)
    /\ UNCHANGED << envVars, appState, runs, cfg, scanResult, newRAWFiles, loaded, poolVars,
                    consumerVars, uploads, deleted, absentSeen >>

\* one iteration of the upload loop (697-714); with SkipUpload im is nil and
\* im.UploadFile dereferences it
\* the profile name runJPGOnlyMode records (713)
JPGProfile == "jpg-only"

UploadJPG ==
    /\ pc = "jpgloop"
    /\ jpgIndex < Len(newJPGFiles)
    /\ LET jpgFile == newJPGFiles[jpgIndex + 1]
       IN  IF cfg.SkipUpload
           THEN /\ Return("panic")
                /\ UNCHANGED << jpgIndex, uploads, appState, now, absentSeen >>
           ELSE /\ jpgIndex' = jpgIndex + 1
                /\ UNCHANGED << pc, exit >>
                /\ \E ok \in Outcomes("upload") :
                      /\ uploads' = Append(uploads,
                                         UploadCall("single", ok, {jpgFile.Name}, {}, {}))
                      /\ IF ok
                         THEN \E t2 \in now..MaxClock :
                                 /\ appState' = MarkProcessed(appState, jpgFile.Name,
                                                    JPGProfile, jpgFile.Path, now, t2)
                                 /\ now' = t2
                                 /\ absentSeen' = absentSeen \ {jpgFile.Name}
                         ELSE UNCHANGED << appState, now, absentSeen >>
    /\ UNCHANGED << card, disk, outDir, dngDir, hist, runs, cfg, scanResult, newRAWFiles,
                    newJPGFiles, loaded, poolVars, consumerVars, deleted >>

\* the loop is over
UploadJPGEnd ==
    /\ pc = "jpgloop"
    /\ jpgIndex = Len(newJPGFiles)
    /\ pc' = "save"
    /\ UNCHANGED << envVars, storeVars, runs, cfg, exit, scanVars, poolVars, consumerVars,
                    uploads, deleted, absentSeen >>

-----------------------------------------------------------------------------
(* Between two runs *)

\* main returns; the next invocation starts from scratch
Exit ==
    /\ pc = "done"
    /\ pc' = "idle"
    /\ runs' = runs + 1
    /\ RunResetNext
    /\ hist' = ForgetAtExit(hist)
    /\ UNCHANGED << envVars, absentSeen >>

\* the user takes pictures, deletes files, puts files back
CardChange ==
    /\ pc = "idle"
    /\ runs < MaxRuns
    /\ \E files \in SUBSET CardPaths : files # card /\ card' = files
    /\ UNCHANGED << disk, now, outDir, dngDir, storeVars, pc, runs, cfg, exit, scanVars,
                    poolVars, consumerVars, uploads, deleted, absentSeen >>

\* what can go wrong in clearStateFile once the state is loaded: the Save (214)
ClearFaults == {"save"}

\* clearStateFile (-clear-state): Load, Clear, Save; hist keeps what Clear was
\* called on, what it returned and left, and whether the Save failed
ClearStateFile ==
    /\ pc = "idle"
    /\ runs < MaxRuns
    /\ LET r == Load(disk)
       IN  /\ ~r.err
           /\ LET c == Clear(r.state)
              IN  \E w \in SaveResults(c.state, disk, ClearFaults) :
                     /\ disk' = w.file
                     /\ hist' = [op |-> "clear", ret |-> c.removed, pre |-> r.state,
                                 post |-> c.state, err |-> w.err, old |-> disk]
    /\ UNCHANGED << card, now, outDir, dngDir, appState, pc, runs, cfg, exit, scanVars,
                    poolVars, consumerVars, uploads, deleted, absentSeen >>

-----------------------------------------------------------------------------
(* Specifications *)

RawNames == {BaseOf(p) : p \in {q \in CardPaths : MapBool(rawExtensions, ToUpper(q.ext))}}

\* the State after earlier runs converted the files of names (at time 1)
RECURSIVE StateWith(_)
StateWith(names) ==
    IF names = {} THEN NewState
    ELSE LET n == CHOOSE x \in names : TRUE
         IN  MarkProcessed(StateWith(names \ {n}), n, ProfileName, NoPath, 1, 1)

\* Spec: runs of the program one after the other, with one worker unless
\* stated, while the card changes and the state may be cleared between runs.
\* The clock stands at MaxClock: no run reads a time stamp.
RunFaults == [DefaultConfig EXCEPT !.Faults = {"convert", "upload"}]

RunConfigs ==
    { RunFaults,
      [RunFaults EXCEPT !.Limit = 1],
      [RunFaults EXCEPT !.DryRun = TRUE],
      [RunFaults EXCEPT !.SkipUpload = TRUE, !.Workers = 2],
      [RunFaults EXCEPT !.ConvertToDNG = TRUE],
      [RunFaults EXCEPT !.ProcessRAWFiles = FALSE] }

Init ==
    /\ RunReset
    /\ card \in SUBSET CardPaths
    /\ disk \in {MissingFile} \cup {Save(StateWith(names)) : names \in SUBSET RawNames}
    /\ now = MaxClock
    /\ outDir = {}
    /\ dngDir = {}
    /\ hist = NoHist
    /\ pc = "idle"
    /\ runs = 0
    /\ absentSeen = {}

PoolStep ==
    \/ Send
    \/ CloseJobs
    \/ \E w \in DOMAIN workers : WorkerReceive(w)
    \/ \E w \in DOMAIN workers : WorkerExit(w)
    \/ \E w \in DOMAIN workers : WorkerDNG(w)
    \/ \E w \in DOMAIN workers : WorkerRT(w)
    \/ CloseResults
    \/ Drain
    \/ DrainEnd

Next ==
    \/ StartRun(RunConfigs)
    \/ ScanAndSync
    \/ FilterRAW
    \/ PreparePool
    \/ PoolStep
    \/ UploadProcessed
    \/ UploadCamera
    \/ Cleanup
    \/ SaveState
    \/ FilterJPG
    \/ UploadJPG
    \/ UploadJPGEnd
    \/ Exit
    \/ CardChange
    \/ ClearStateFile

Spec == Init /\ [][Next]_vars

\* SpecPool: one RAW-mode run on any card with a RAW file, for every worker
\* setting and host, with and without the DNG step, converters that may fail;
\* the full card is run with the automatic worker count on an 8-core host
\* and converters that succeed.
PoolConfigs ==
    IF card = FullCard
    THEN {[DefaultConfig EXCEPT !.Workers = 0, !.NumCPU = 8, !.SkipUpload = TRUE]}
    ELSE {[DefaultConfig EXCEPT !.Workers = w, !.NumCPU = c, !.ConvertToDNG = d,
                                !.SkipUpload = TRUE, !.Faults = {"convert"}] :
             w \in 0..3, c \in {1, 8}, d \in BOOLEAN}

InitPool ==
    /\ RunReset
    /\ card \in {files \in SUBSET CardPaths : ScanForImages(files).RAWFiles # << >>}
                 \cup {FullCard, TwinCard}
    /\ disk = MissingFile
    /\ now = MaxClock
    /\ outDir = {}
    /\ dngDir = {}
    /\ hist = NoHist
    /\ pc = "idle"
    /\ runs = 0
    /\ absentSeen = {}

NextPool ==
    \/ StartRun(PoolConfigs)
    \/ ScanAndSync
    \/ FilterRAW
    \/ PreparePool
    \/ PoolStep
    \/ UploadProcessed
    \/ UploadCamera
    \/ Cleanup
    \/ SaveState

SpecPool == InitPool /\ [][NextPool]_vars

-----------------------------------------------------------------------------
(* Claims about runs *)

\* the names in a slice of FileInfo
NamesOf(files) == {files[i].Name : i \in 1..Len(files)}

\* the jobs the send loop has put on the jobs channel in this run
Submitted == SubSeq(newRAWFiles, 1, sent)

\* the mapping a load of the state file yields
OnDisk == DOMAIN Load(disk).state.ProcessedFiles

\* the pool of this run has handed over everything
PoolDone == numWorkers > 0 /\ pc \notin {"send", "drain"}

\* C1: a file name that was in the mapping loaded at the start of the run and
\* is still on the card is not submitted to the pool in that run (clearing is
\* another invocation, between runs); a card whose RAW files are all recorded
\* yields no job and no pool.
C1_RecordedNotResubmitted ==
    /\ \A F \in loaded \cap DOMAIN FilesOnCard(scanResult) : F \notin NamesOf(Submitted)
    /\ (pc \notin {"idle", "loaded"} /\ NamesOf(scanResult.RAWFiles) \subseteq loaded)
           => (sent = 0 /\ numWorkers = 0 /\ pc \notin {"send", "drain"})

\* a later run: a recorded RAW file is still on the card and stays out of the
\* pool while a new file is submitted
C1_Witness ==
    /\ runs >= 1
    /\ pc = "drain"
    /\ \E F \in loaded \cap NamesOf(scanResult.RAWFiles) : F \notin NamesOf(Submitted)
    /\ sent >= 1

\* C2: a recorded file name that a run found missing from the card is, in a
\* later run that finds a file of that name on the card, among the new files.
C2_DeletedThenRestoredIsNew ==
    pc = "filtered" =>
        \A F \in absentSeen \cap NamesOf(scanResult.RAWFiles) : F \in NamesOf(newRAWFiles)

\* C3: a file whose normalization or conversion failed in a RAW-mode run is
\* absent from the mapping the run saves.
C3_FailedFileStaysUnmarked ==
    (pc = "done" /\ exit = "ok" /\ cfg.ProcessRAWFiles) =>
        \A i \in 1..Len(drained) :
            drained[i].err # "nil" => drained[i].rawFile.Name \notin OnDisk

\* C4: when the upload of the processed batch fails, the RAW files whose
\* outputs were in that batch are not in the mapping the run saves.
C4_FailedUploadLeavesUnmarked ==
    (pc = "done" /\ exit = "ok") =>
        \A u \in 1..Len(uploads) :
            (uploads[u].batch = "processed" /\ ~uploads[u].ok) =>
                \A i \in 1..Len(drained) :
                    (drained[i].err = "nil" /\ BaseOf(drained[i].outputPath) \in uploads[u].files)
                        => drained[i].rawFile.Name \notin OnDisk

\* C7: no two jobs submitted to the pool in one run carry the same file name.
C7_JobNamesDistinct ==
    \A i, j \in 1..sent : i # j => newRAWFiles[i].Name # newRAWFiles[j].Name

-----------------------------------------------------------------------------
(* Claims about the worker pool *)

\* the results of job i (index i - 1) that the consumer has received
DrainedFor(i) == {k \in 1..Len(drained) : drained[k].index = i - 1}

\* the workers that hold job i
HoldersOf(i) == {w \in DOMAIN workers : workers[w].job.index = i - 1}

\* C5: every submitted job is received by exactly one worker, yields exactly
\* one result, and the consumer receives exactly N results.
C5_EachJobExactlyOnce ==
    /\ \A i \in DOMAIN took :
          /\ took[i] <= 1
          /\ emits[i] <= took[i]
          /\ Cardinality(DrainedFor(i)) <= emits[i]
          /\ Cardinality(HoldersOf(i)) <= 1
    /\ PoolDone =>
          /\ \A i \in 1..Len(newRAWFiles) :
                took[i] = 1 /\ emits[i] = 1 /\ Cardinality(DrainedFor(i)) = 1
          /\ processedCount = Len(newRAWFiles)
          /\ Len(drained) = Len(newRAWFiles)
          /\ jobs = << >> /\ results = << >>

\* three jobs went through a pool of two workers
C5_Witness ==
    /\ PoolDone
    /\ Len(newRAWFiles) = 3
    /\ numWorkers = 2
    /\ processedCount = 3
    /\ \A i \in 1..3 : took[i] = 1

\* the claim's cap: the configured worker count when positive, else the CPU
\* core count capped at 4
Cap(c) == IF c.Workers > 0 THEN c.Workers ELSE Min(c.NumCPU, 4)

Busy == {w \in DOMAIN workers : workers[w].pc \in {"dng", "rt"}}

C8_ErrorXorOutputPath ==
    /\ \A r \in Range(results) \cup Range(drained) :
          (r.err = "nil") <=> (r.outputPath # NoPath)
    /\ \A w \in DOMAIN workers :
          workers[w].pc = "done" => (jobs = << >> /\ jobsClosed)
    /\ PoolDone => \A i \in 1..Len(newRAWFiles) : DrainedFor(i) # {}

\* the first job failed in the DNG step, a later one in RawTherapee, and a job
\* received after a failure succeeded
C8_Witness ==
    /\ PoolDone
    /\ Len(drained) = 3
    /\ \E a, b, c \in 1..3 :
          /\ drained[a].index = 0 /\ drained[a].err = "DNG conversion failed"
          /\ drained[b].err = "rawtherapee-cli failed"
          /\ drained[c].index = 2 /\ drained[c].err = "nil"
          /\ drained[c].outputPath # NoPath

-----------------------------------------------------------------------------
(* The state file over two lives of the process: Load at start, the State  *)
(* methods, Save in the two steps of os.WriteFile, a crash in between, and *)
(* the Load of the process that is started next.                           *)

fileFrame == << card, now, outDir, dngDir, cfg, exit, scanVars, poolVars, consumerVars,
                uploads, deleted, absentSeen >>

\* the write-back of Load and Save may fail
FileFaults == {"save"}

\* state.Load at the start of a process
FileLoad ==
    /\ pc \in {"boot", "reboot"}
    /\ \E r \in LoadResults(disk, FileFaults) :
          /\ disk' = r.file
          /\ appState' = IF r.err THEN appState ELSE r.state
          /\ pc' = IF r.err THEN "dead" ELSE IF pc = "boot" THEN "store" ELSE "reloaded"
          /\ hist' = [op |-> "load", file |-> disk, ret |-> r,
                      saved |-> IF hist.op = "save" THEN {hist.pre} ELSE {}]
    /\ UNCHANGED << runs, fileFrame >>

\* State.Save, os.WriteFile opens the file with O_TRUNC: the file is empty
FileSaveOpen ==
    /\ pc = "store"
    /\ pc' = "saving"
    /\ disk' = CorruptFile
    /\ hist' = [op |-> "saveopen", old |-> disk, new |-> Save(appState)]
    /\ UNCHANGED << appState, runs, fileFrame >>

\* os.WriteFile writes the document and Save returns nil; Save is the last
\* thing a process does with the State
FileSaveWrite ==
    /\ pc = "saving"
    /\ pc' = "saved"
    /\ disk' = Save(appState)
    /\ hist' = [op |-> "save", pre |-> appState]
    /\ UNCHANGED << appState, runs, fileFrame >>

\* the write fails and Save returns the error
FileSaveFail ==
    /\ pc = "saving"
    /\ pc' = "saved"
    /\ hist' = [op |-> "savefailed", pre |-> appState]
    /\ UNCHANGED << disk, appState, runs, fileFrame >>

\* the process dies inside os.WriteFile
FileCrash ==
    /\ pc = "saving"
    /\ pc' = "dead"
    /\ hist' = [hist EXCEPT !.op = "crash"]
    /\ UNCHANGED << disk, appState, runs, fileFrame >>

\* the process ends and the program is started again
Restart ==
    /\ pc \in {"store", "saved", "dead"}
    /\ pc' = "reboot"
    /\ appState' = NewState
    /\ hist' = IF pc = "store" THEN NoHist ELSE hist
    /\ UNCHANGED << disk, runs, fileFrame >>

\* entries of hand-written and legacy documents
Entry(n, p) == MarshalProcessedFile(ProcessedFile(n, 1, p))

LegacyLists ==
    LET A == CHOOSE n \in RawNames : TRUE
        B == CHOOSE n \in Names : n # A
    IN  { << >>,
          << Entry(A, ProfileName) >>,
          << Entry(A, ""), Entry(B, ProfileName) >>,
          << Entry(A, ProfileName), Entry(B, ""), Entry(A, "jpg-only") >> }

\* the state files a process may find
FileUniverse ==
    {MissingFile, CorruptFile, UnreadableFile,
     StateFile(EmptyMap), StateFile([version |-> 1]),
     NullMapFile([version |-> 2]), NullMapFile(EmptyMap)}
        \cup {LegacyFile(l, 1) : l \in LegacyLists}

InitFile ==
    /\ RunReset
    /\ card = {}
    /\ disk \in FileUniverse
    /\ now = MaxClock
    /\ outDir = {}
    /\ dngDir = {}
    /\ hist = NoHist
    /\ pc = "boot"
    /\ runs = 0
    /\ absentSeen = {}

NextFile ==
    \/ FileLoad
    \/ CallMarkProcessed
    \/ CallSyncWithCard
    \/ CallSetCardID
    \/ CallClear
    \/ FileSaveOpen
    \/ FileSaveWrite
    \/ FileSaveFail
    \/ FileCrash
    \/ Restart

SpecFile == InitFile /\ [][NextFile]_vars

-----------------------------------------------------------------------------
(* Claims about the state file *)

\* C11: a Load that follows a successful Save of a state reachable by the
\* State methods returns no error and a state with the same file names, the
\* same profileUsed for each, the same cardID and the same formatVersion.
C11_SaveLoadRoundTrip ==
    (hist.op = "load" /\ hist.saved # {}) =>
        \A sv \in hist.saved :
            /\ ~hist.ret.err
            /\ DOMAIN hist.ret.state.ProcessedFiles = DOMAIN sv.ProcessedFiles
            /\ \A f \in DOMAIN sv.ProcessedFiles :
                  hist.ret.state.ProcessedFiles[f].ProfileUsed
                      = sv.ProcessedFiles[f].ProfileUsed
            /\ hist.ret.state.CardID = sv.CardID
            /\ hist.ret.state.Version = sv.Version
            /\ appState = hist.ret.state

\* a state with a card identity and two entries, one of them without profile,
\* was saved and loaded by the next process
C11_Witness ==
    /\ hist.op = "load"
    /\ pc = "reloaded"
    /\ \E sv \in hist.saved :
          /\ sv.CardID # ""
          /\ \E f, g \in DOMAIN sv.ProcessedFiles :
                sv.ProcessedFiles[f].ProfileUsed = "" /\ sv.ProcessedFiles[g].ProfileUsed # ""

\* the current-schema document that holds the entries of a legacy document,
\* the last entry of a file name counting
CurrentEquivalent(doc) ==
    LET list == doc.processed_files
        names == {list[i].filename : i \in 1..Len(list)}
        Last(n) == CHOOSE i \in 1..Len(list) :
                      /\ list[i].filename = n
                      /\ \A j \in 1..Len(list) : list[j].filename = n => j <= i
    IN  StateFile([version |-> 2, last_run |-> doc.last_processed_timestamp,
                   processed_files |-> [n \in names |-> list[Last(n)]]])

\* the mapping and version a Load of a legacy file must return
LegacyLoadedAsCurrent ==
    /\ ~hist.ret.err
    /\ hist.ret.state.ProcessedFiles
           = Load(CurrentEquivalent(hist.file.doc)).state.ProcessedFiles
    /\ hist.ret.state.Version = 2

\* the state file is a current-schema document that loads to s without the
\* legacy branch
ParsesAsCurrent(file, s) ==
    /\ file.kind = "file"
    /\ \A r \in LoadResults(file, FileFaults) : ~r.err /\ ~r.legacy /\ r.state = s

\* C12 as stated: a Load of a legacy file returns the mapping of the
\* equivalent current-schema file with the current version, and has written
\* the upgraded form back, so that a later Load parses the current schema.
C12_LegacyUpgradedOnce ==
    (hist.op = "load" /\ hist.file.kind = "legacy") =>
        /\ LegacyLoadedAsCurrent
        /\ ParsesAsCurrent(disk, hist.ret.state)

\* C12: a Load of a legacy file returns the mapping of the equivalent
\* current-schema file with the current version; when its write-back succeeds
\* the file is the upgraded form and a later Load parses the current schema;
\* when the write-back fails the Load still succeeds and the file is the
\* legacy one or a truncated one.
C12_LegacyUpgradedWhenWritten ==
    (hist.op = "load" /\ hist.file.kind = "legacy") =>
        /\ LegacyLoadedAsCurrent
        /\ \/ ParsesAsCurrent(disk, hist.ret.state)
           \/ disk = hist.file
           \/ disk = CorruptFile
        /\ disk = Save(hist.ret.state) => ParsesAsCurrent(disk, hist.ret.state)

\* a legacy list that names a file twice was migrated and written back
C12_Witness ==
    /\ pc = "store"
    /\ hist.op = "load"
    /\ hist.file.kind = "legacy"
    /\ hist.ret.legacy
    /\ disk = Save(appState)
    /\ Len(hist.file.doc.processed_files) = 3
    /\ Cardinality(DOMAIN appState.ProcessedFiles) = 2
    /\ \E f \in DOMAIN appState.ProcessedFiles : appState.ProcessedFiles[f].ProfileUsed = "jpg-only"
    /\ \E f \in DOMAIN appState.ProcessedFiles : appState.ProcessedFiles[f].ProfileUsed = ""

\* C13: while Save runs, and after a crash inside it, the state file is the
\* complete document of the previous save or the complete new document.
C13_SaveIsAtomic ==
    hist.op \in {"saveopen", "crash"} => disk \in {hist.old, hist.new}

\* C16: Load returns no error and the empty state with the current version
\* when the file is missing, an error when the content parses under neither
\* schema, an error in no other case than that or an unreadable file, and
\* never a state with a nil mapping.
C16_LoadOutcomes ==
    hist.op = "load" =>
        /\ hist.file.kind = "missing" =>
              /\ ~hist.ret.err
              /\ hist.ret.state.ProcessedFiles = EmptyMap
              /\ hist.ret.state.Version = 2
              /\ hist.ret.state.CardID = ""
        /\ hist.file.kind = "corrupt" => hist.ret.err
        /\ hist.ret.err => hist.file.kind \in {"corrupt", "unreadable"}
        /\ ~hist.ret.err => ~hist.ret.nilMap

\* a document with "processed_files": null was loaded
C16_Witness ==
    /\ hist.op = "load"
    /\ hist.file.kind = "nullmap"
    /\ ~hist.ret.err
    /\ pc = "store"
    /\ appState.ProcessedFiles = EmptyMap

-----------------------------------------------------------------------------
(* Claims about the steps of a run *)

\* the run returned nil
ReturnedNil == pc = "done" /\ exit \in {"ok", "nonew", "dry"}

\* C14: when a run returns without a fatal error, the state file holds the
\* in-memory state, the removals of SyncWithCard included.
C14_RunPersistsState ==
    ReturnedNil => Load(disk).state = appState

\* the processed output files that this run deleted
DeletedOutputs == deleted \cap Range(processedJPGs)

\* C15: a processed output file is deleted only in a run in which the upload
\* of the processed batch succeeded.
C15_CleanupOnlyAfterUpload ==
    DeletedOutputs # {} =>
        \E u \in 1..Len(uploads) : uploads[u].batch = "processed" /\ uploads[u].ok

\* the RAW files of the catalog that the loaded mapping does not hold, in
\* discovery order
NewInOrder ==
    LET IsNew(f) == f.Name \notin loaded
    IN  SelectSeq(scanResult.RAWFiles, IsNew)

\* how many of k new files a limit lets through
Allowed(limit, k) == IF limit > 0 THEN Min(limit, k) ELSE k

\* C17: in RAW mode, with k new files in discovery order, the jobs of the run
\* are the first min(L, k) of them when the limit L is positive and all k when
\* it is 0, and all of them are submitted; the entries SyncWithCard drops are
\* those of the loaded names that are not on the card, whatever the limit.
C17_LimitIsStablePrefix ==
    /\ (/\ cfg.ProcessRAWFiles
        /\ \/ pc \in {"send", "drain", "upload", "uploadCamera", "cleanup", "save"}
           \/ (pc = "done" /\ exit \in {"ok", "dry"})) =>
          /\ newRAWFiles = SubSeq(NewInOrder, 1, Allowed(cfg.Limit, Len(NewInOrder)))
          /\ Submitted = SubSeq(newRAWFiles, 1, sent)
          /\ (pc # "send" /\ exit # "dry") => sent = Allowed(cfg.Limit, Len(NewInOrder))
    /\ pc \in {"synced", "filtered"} =>
          DOMAIN appState.ProcessedFiles = loaded \cap DOMAIN FilesOnCard(scanResult)

\* limit 1 with new files A, B (and A again): only A was submitted, and a
\* stale entry was dropped in the same run
C17_Witness ==
    /\ pc = "drain"
    /\ cfg.Limit = 1
    /\ Len(NewInOrder) >= 2
    /\ NewInOrder[1].Name # NewInOrder[2].Name
    /\ sent = 1
    /\ NamesOf(Submitted) = {NewInOrder[1].Name}
    /\ loaded \ DOMAIN FilesOnCard(scanResult) # {}

\* the path of the first catalog JPG whose base name is that of the RAW file
FirstJPGFor(rawFile) ==
    LET hits == {i \in 1..Len(scanResult.JPGFiles) :
                    scanResult.JPGFiles[i].BaseName = rawFile.BaseName}
    IN  IF hits = {} THEN << >>
        ELSE << scanResult.JPGFiles[CHOOSE i \in hits : \A j \in hits : i <= j].Path >>

\* the camera JPGs that the drained results call for
RECURSIVE CameraFor(_)
CameraFor(rs) ==
    IF rs = << >> THEN << >>
    ELSE LET r == rs[Len(rs)]
         IN  CameraFor(SubSeq(rs, 1, Len(rs) - 1))
                 \o (IF r.err = "nil" /\ cfg.UploadCameraJPGs THEN FirstJPGFor(r.rawFile)
                     ELSE << >>)

\* C18: the camera batch holds, for each result drained without error, the
\* path of the first catalog JPG with the RAW file's base name, nothing for a
\* RAW file without such a JPG and nothing for a failed result; what is
\* uploaded as the camera batch are these files.
C18_CameraJPGPairing ==
    /\ cameraJPGs = CameraFor(drained)
    /\ \A u \in 1..Len(uploads) :
          uploads[u].batch = "camera" =>
              uploads[u].files = {BaseOf(cameraJPGs[i]) : i \in 1..Len(cameraJPGs)}

\* two workers, A.ORF and B.orf converted, A.ORF's second job failed: the
\* camera batch is A.JPG alone
C18_Witness ==
    /\ PoolDone
    /\ numWorkers = 2
    /\ Len(cameraJPGs) = 1
    /\ BaseOf(cameraJPGs[1]) = [base |-> "A", ext |-> "JPG"]
    /\ \E a, b, c \in 1..Len(drained) :
          /\ drained[a].err = "nil" /\ drained[a].rawFile.BaseName = "A"
          /\ drained[b].err = "nil" /\ drained[b].rawFile.BaseName = "B"
          /\ drained[c].err # "nil"

-----------------------------------------------------------------------------
(* The pool under the scheduler: every goroutine that can take a step takes *)
(* one, and every converter call returns.                                   *)

\* the steps of worker w
WorkerStep(w) ==
    /\ w \in DOMAIN workers
    /\ WorkerReceive(w) \/ WorkerDNG(w) \/ WorkerRT(w) \/ WorkerExit(w)

\* the most workers a configuration of PoolLiveConfigs starts
MaxPoolWorkers == 3

\* one RAW-mode run on a card of CardPaths, with 1, 2 and 3 workers
PoolLiveConfigs ==
    {[DefaultConfig EXCEPT !.Workers = w, !.ConvertToDNG = d,
                           !.SkipUpload = TRUE, !.Faults = {"convert"}] :
        w \in 1..MaxPoolWorkers, d \in BOOLEAN}

InitPoolLive ==
    /\ InitPool
    /\ card # FullCard

NextPoolLive ==
    \/ StartRun(PoolLiveConfigs)
    \/ ScanAndSync
    \/ FilterRAW
    \/ PreparePool
    \/ PoolStep
    \/ UploadProcessed
    \/ UploadCamera
    \/ Cleanup
    \/ SaveState

PoolFairness ==
    /\ WF_vars(Send \/ CloseJobs)
    /\ \A w \in 1..MaxPoolWorkers : WF_vars(WorkerStep(w))
    /\ WF_vars(CloseResults)
    /\ WF_vars(Drain \/ DrainEnd)

SpecPoolLive == InitPoolLive /\ [][NextPoolLive]_vars /\ PoolFairness

\* C19: the results channel is closed only when all W workers are done, no
\* result is sent once it is closed and it is not closed again; the pool that
\* was started ends with the channel closed and all N results drained.
C19_CloseOnceThenDrainEnds ==
    /\ [](resultsClosed => (AllWorkersDone /\ jobsClosed /\ jobs = << >>))
    /\ [][resultsClosed => (resultsClosed' /\ emits' = emits
                             /\ Len(results') <= Len(results))]_vars
    /\ (pc = "send") ~> (/\ pc = "upload"
                         /\ resultsClosed
                         /\ results = << >>
                         /\ Len(drained) = Len(newRAWFiles))

\* three workers finished three jobs, the channel was closed and drained
C19_Witness ==
    /\ pc = "upload"
    /\ resultsClosed
    /\ numWorkers = 3
    /\ Len(drained) = 3
    /\ AllWorkersDone

\* the names the pool's consumer has received a result without error for
DrainedOK == {drained[k].rawFile.Name : k \in {j \in 1..Len(drained) : drained[j].err = "nil"}}

\* C20: while the pool runs, the State changes only in a step of the consumer
\* that takes a result without error from the results channel, and by the
\* entry of that result's file name; no worker step changes it, and every
\* entry added in the run belongs to a result already received.
C20_OnlyConsumerMutatesState ==
    /\ [](PoolRunning =>
             DOMAIN appState.ProcessedFiles \subseteq
                 ((loaded \cap DOMAIN FilesOnCard(scanResult)) \cup DrainedOK))
    /\ [][(PoolRunning /\ appState' # appState) =>
             /\ results # << >>
             /\ Head(results).err = "nil"
             /\ results' = Tail(results)
             /\ drained' = Append(drained, Head(results))
             /\ workers' = workers
             /\ jobs' = jobs
             /\ DOMAIN appState'.ProcessedFiles
                    = DOMAIN appState.ProcessedFiles \cup {Head(results).rawFile.Name}
             /\ \A f \in DOMAIN appState.ProcessedFiles \ {Head(results).rawFile.Name} :
                    appState'.ProcessedFiles[f] = appState.ProcessedFiles[f]]_vars

\* the consumer has marked a file while a worker is inside a converter call
\* and another result waits on the channel
C20_Witness ==
    /\ pc = "drain"
    /\ DrainedOK # {}
    /\ DrainedOK \subseteq DOMAIN appState.ProcessedFiles
    /\ Busy # {}
    /\ results # << >>

-----------------------------------------------------------------------------
(* One run under every kind of configuration and fault (SpecRun) *)

\* a processed JPG that an earlier run left in the output directory
EarlierOutput == [dir |-> "out", base |-> "Z", ext |-> "jpg"]

\* converters that are missing: RawTherapee, or the DNG converter with the DNG
\* step on or off, also in a dry run
MissingToolConfigs ==
    {[DefaultConfig EXCEPT !.Workers = 2, !.RawTherapeeFound = r, !.DNGConverterFound = FALSE,
                           !.ConvertToDNG = d, !.DryRun = dry] :
        r \in BOOLEAN, d \in BOOLEAN, dry \in BOOLEAN}

\* dry runs of both modes, with calls that would fail if they were made
DryRunConfigs ==
    {[DefaultConfig EXCEPT !.DryRun = TRUE, !.ProcessRAWFiles = m, !.ConvertToDNG = m,
                           !.Faults = {"convert", "upload"}] : m \in BOOLEAN}

\* RAW-mode runs whose scratch directories, copies and uploads may fail
BatchConfigs ==
    {[DefaultConfig EXCEPT !.UploadCameraJPGs = c, !.Faults = f] :
        c \in BOOLEAN, f \in {{"convert", "upload"}, {"mkdir", "upload"}, {"copy"}}}

\* RAW-mode runs with the DNG step, into a temporary or a configured
\* directory, with and without the cleanup of the DNG files
DNGConfigs ==
    {[DefaultConfig EXCEPT !.ConvertToDNG = TRUE, !.DNGOutputDirectory = dir,
                           !.CleanupDNGFiles = cl, !.SkipUpload = TRUE,
                           !.Faults = {"convert"}] :
        dir \in {"", "dng"}, cl \in BOOLEAN}

\* JPG-only runs whose uploads and whose save may fail, and one without an
\* uploader
JPGConfigs ==
    {[DefaultConfig EXCEPT !.ProcessRAWFiles = FALSE, !.SkipUpload = sk,
                           !.Faults = {"upload", "save"}] : sk \in BOOLEAN}

\* -limit 1 in RAW mode and together with -jpg-only
LimitOneConfigs ==
    {[DefaultConfig EXCEPT !.Limit = 1, !.ProcessRAWFiles = raw] : raw \in BOOLEAN}

OneRunConfigs == MissingToolConfigs \cup DryRunConfigs \cup BatchConfigs \cup DNGConfigs
                     \cup JPGConfigs \cup LimitOneConfigs

InitRun ==
    /\ RunReset
    /\ card \in (SUBSET CardPaths) \cup {JPGCard}
    /\ disk \in {MissingFile} \cup {Save(StateWith(names)) : names \in SUBSET RawNames}
    /\ now = MaxClock
    /\ outDir \in {{}, {EarlierOutput}}
    /\ dngDir = {}
    /\ hist = NoHist
    /\ pc = "idle"
    /\ runs = 0
    /\ absentSeen = {}

NextRun ==
    \/ StartRun(OneRunConfigs)
    \/ ScanAndSync
    \/ FilterRAW
    \/ PreparePool
    \/ PoolStep
    \/ UploadProcessed
    \/ UploadCamera
    \/ Cleanup
    \/ SaveState
    \/ FilterJPG
    \/ UploadJPG
    \/ UploadJPGEnd

SpecRun == InitRun /\ [][NextRun]_vars

-----------------------------------------------------------------------------
(* Claims about one run *)

\* NewDNGConverter (with the DNG step on) or NewRawTherapee returns an error
ToolMissing == (cfg.ConvertToDNG /\ ~cfg.DNGConverterFound) \/ ~cfg.RawTherapeeFound

\* C21: in a RAW-mode run with a converter (or, with the DNG step on, the DNG
\* converter) missing, no pool exists at any time: no worker, no job on the
\* channel, no result, no converter call, no upload, no name marked; and the
\* run, when it has new files and is not a dry run, returns a fatal error.
C21_MissingToolIsFatalBeforePool ==
    (cfg.ProcessRAWFiles /\ ToolMissing) =>
        /\ pc \notin {"send", "drain", "upload", "uploadCamera", "cleanup", "save"}
        /\ numWorkers = 0 /\ workers = << >>
        /\ jobs = << >> /\ sent = 0 /\ took = << >>
        /\ results = << >> /\ emits = << >> /\ drained = << >> /\ inflight = 0
        /\ processedCount = 0 /\ uploads = << >> /\ deleted = {}
        /\ DOMAIN appState.ProcessedFiles \subseteq loaded
        /\ (pc = "done" /\ newRAWFiles # << >> /\ ~cfg.DryRun) => exit = "fatal"

\* the DNG step is on and its converter is missing while RawTherapee is there:
\* the run found two new files and returned the fatal error
C21_Witness ==
    /\ pc = "done"
    /\ exit = "fatal"
    /\ cfg.ConvertToDNG /\ ~cfg.DNGConverterFound /\ cfg.RawTherapeeFound
    /\ Len(newRAWFiles) >= 2
    /\ workers = << >>

-----------------------------------------------------------------------------
(* Claims about the clear-state command *)

\* a run that follows a clear-state command that saved stands before its
\* filter step
AfterClear == hist.op = "clear" /\ ~hist.err /\ pc = "synced"

\* C22: Clear leaves an empty mapping and no card identity and returns the
\* number of entries it found; the state file changes through the Save that
\* follows (a Save that fails leaves the old file or a truncated one, not the
\* cleared state); after a clear-state command that saved, the next run loads
\* an empty mapping and its filter step takes every RAW file (in JPG-only
\* mode every JPG file) that the scan found as new.
C22_ClearThenSaveForgetsAll ==
    /\ [](hist.op = "clear" =>
            /\ hist.post.ProcessedFiles = EmptyMap
            /\ hist.post.CardID = ""
            /\ hist.ret = Cardinality(DOMAIN hist.pre.ProcessedFiles)
            /\ pc = "idle" =>
                  IF hist.err THEN disk \in {hist.old, CorruptFile}
                  ELSE disk = Save(hist.post)
            /\ (~hist.err /\ pc # "idle") =>
                  loaded = {} /\ appState.ProcessedFiles = EmptyMap)
    /\ [][AfterClear =>
            /\ cfg.ProcessRAWFiles => newRAWFiles' = scanResult.RAWFiles
            /\ ~cfg.ProcessRAWFiles => newJPGFiles' = scanResult.JPGFiles]_vars

\* two entries were cleared and saved away, and the next run has found the
\* files they recorded on the card
C22_Witness ==
    /\ hist.op = "clear"
    /\ hist.ret = 2
    /\ AfterClear
    /\ cfg.ProcessRAWFiles
    /\ Len(scanResult.RAWFiles) >= 3
    /\ DOMAIN hist.pre.ProcessedFiles \subseteq NamesOf(scanResult.RAWFiles)

-----------------------------------------------------------------------------
(* Claims about the upload batches *)

\* the results drained without error in this run
Succeeded == {i \in 1..Len(drained) : drained[i].err = "nil"}

\* the names of the output files of the conversions that succeeded in this run
SucceededOutputs == {BaseOf(drained[i].outputPath) : i \in Succeeded}

\* the names of the camera JPGs of the RAW files converted in this run
PairedCameraJPGs ==
    {BaseOf(FindMatchingJPG(drained[i].rawFile, scanResult.JPGFiles).Path) :
        i \in {j \in Succeeded :
                  FindMatchingJPG(drained[j].rawFile, scanResult.JPGFiles) # NoFile}}

\* the upload calls of this run for a batch
CallsOf(batch) == {u \in 1..Len(uploads) : uploads[u].batch = batch}

\* C23: in a RAW-mode run, whatever is in the directory uploaded as the
\* processed batch is an output of a conversion that succeeded in this run;
\* whatever is in the one uploaded as the camera batch is the camera JPG of a
\* RAW file converted in this run; each batch has at most one upload call;
\* and when camera JPGs were paired (uploads on, scratch directory made) the
\* camera batch has its call whether or not the processed batch's call
\* succeeded or was made.
C23_BatchesHoldThisRunOnly ==
    cfg.ProcessRAWFiles =>
        /\ \A u \in CallsOf("processed") :
              uploads[u].files \cup uploads[u].partial \subseteq SucceededOutputs
        /\ \A u \in CallsOf("camera") :
              uploads[u].files \cup uploads[u].partial \subseteq PairedCameraJPGs
        /\ Cardinality(CallsOf("processed")) <= 1
        /\ Cardinality(CallsOf("camera")) <= 1
        /\ CallsOf("single") = {}
        /\ (/\ pc \in {"cleanup", "save", "done"}
            /\ ~cfg.SkipUpload /\ cfg.UploadCameraJPGs /\ cameraJPGs # << >>
            /\ "mkdir" \notin cfg.Faults) => CallsOf("camera") # {}

\* an earlier run's output lies in the output directory, one conversion of
\* this run failed and one succeeded, the upload of the processed batch failed
\* and the camera batch was uploaded all the same
C23_Witness ==
    /\ cfg.ProcessRAWFiles
    /\ pc = "cleanup"
    /\ EarlierOutput \in outDir
    /\ Succeeded # {} /\ Cardinality(Succeeded) < Len(drained)
    /\ \E u \in CallsOf("processed") : ~uploads[u].ok /\ uploads[u].files # {}
    /\ \E u \in CallsOf("camera") : uploads[u].ok /\ uploads[u].files # {}

\* the upload calls of the two batches of a RAW-mode run
BatchUploads == CallsOf("processed") \cup CallsOf("camera")

\* the remaining files are copied and the one upload call is made although
\* copies failed
RestCopiedAndUploaded ==
    /\ \A u \in CallsOf("processed") :
          SucceededOutputs \ uploads[u].failed \subseteq uploads[u].files
    /\ \A u \in CallsOf("camera") :
          PairedCameraJPGs \ uploads[u].failed \subseteq uploads[u].files
    /\ (/\ pc \in {"uploadCamera", "cleanup", "save"}
        /\ ~cfg.SkipUpload /\ processedJPGs # << >> /\ "mkdir" \notin cfg.Faults)
           => CallsOf("processed") # {}

\* C24: a copy into a batch's scratch directory that fails leaves nothing of
\* that file in the directory that is uploaded, the files whose copies
\* succeeded are in it, and the upload call of the batch is made.
C24_FailedCopyIsExcluded ==
    /\ RestCopiedAndUploaded
    /\ \A u \in BatchUploads : uploads[u].partial = {}

-----------------------------------------------------------------------------
(* Further claims about the worker pool *)

\* the pool exists: from the start of the workers to the return of the run
PoolExists == pc \in {"send", "drain", "upload", "uploadCamera", "cleanup", "save"}

\* the claim's W = max(1, min(c, N))
PoolSize(c, n) == IF Min(Cap(c), n) < 1 THEN 1 ELSE Min(Cap(c), n)

-----------------------------------------------------------------------------
(* Claims about the dry run and the JPG-only mode *)

\* C26: in a dry run of either mode no worker is started and no converter is
\* called, nothing is uploaded, nothing is deleted or created in the output
\* and DNG directories, the state in memory is the loaded one less the
\* entries of files that left the card (no MarkProcessed), and the run
\* returns nil after listing the new files or finding none.
C26_DryRunOnlyEnumerates ==
    cfg.DryRun =>
        /\ pc \notin {"send", "drain", "upload", "uploadCamera", "cleanup", "save", "jpgloop"}
        /\ numWorkers = 0 /\ workers = << >> /\ took = << >> /\ inflight = 0
        /\ jobs = << >> /\ results = << >> /\ drained = << >> /\ processedJPGs = << >>
        /\ uploads = << >>
        /\ deleted = {} /\ outDir \subseteq {EarlierOutput} /\ dngDir = {}
        /\ pc \notin {"idle", "loaded"} =>
              appState = SyncWithCard(Load(disk).state, FilesOnCard(scanResult)).state
        /\ pc = "done" =>
              /\ exit \in {"dry", "nonew"}
              /\ exit = "dry" =>
                    IF cfg.ProcessRAWFiles
                    THEN newRAWFiles = FilterNewFiles(scanResult.RAWFiles,
                                                      GetProcessedFilesMap(appState))
                    ELSE newJPGFiles = FilterNewFiles(scanResult.JPGFiles,
                                                      GetProcessedFilesMap(appState))

\* a dry run in RAW mode with the DNG step on returned after listing two new
\* files, next to a recorded file that is still on the card
C26_Witness ==
    /\ cfg.DryRun /\ cfg.ProcessRAWFiles /\ cfg.ConvertToDNG
    /\ pc = "done" /\ exit = "dry"
    /\ Len(newRAWFiles) >= 2
    /\ DOMAIN appState.ProcessedFiles # {}

-----------------------------------------------------------------------------
(* Claims about the worker loop *)

\* the result that a step has put on the results channel
Emitted == results'[Len(results')]

\* C27: a worker leaves the DNG conversion of a job either for RawTherapee,
\* with the DNG file written, or, when the conversion failed, by sending one
\* result for that job that carries the error and no output path; in that
\* step nothing is written to the output directory and the worker stands at
\* the receive of its loop again without having called RawTherapee; a worker
\* leaves the loop only when the jobs channel is closed and empty.
C27_FailedNormalizationSkipsConversion ==
    /\ [][\A w \in DOMAIN workers :
            (workers[w].pc = "dng" /\ workers'[w].pc # "dng") =>
                \/ /\ workers'[w].pc = "rt"
                   /\ workers'[w].job = workers[w].job
                   /\ workers'[w].dngPath \in dngDir'
                   /\ results' = results
                \/ /\ workers'[w].pc = "recv"
                   /\ workers'[w].job = NoJob
                   /\ Len(results') = Len(results) + 1
                   /\ Emitted.index = workers[w].job.index
                   /\ Emitted.err # "nil"
                   /\ Emitted.outputPath = NoPath
                   /\ emits' = Bump(emits, workers[w].job.index + 1)
                   /\ outDir' = outDir
                   /\ inflight' = inflight - 1]_vars
    /\ [](\A w \in DOMAIN workers :
            /\ workers[w].pc = "rt" => (cfg.ConvertToDNG => workers[w].dngPath \in dngDir)
            /\ workers[w].pc = "done" => (jobs = << >> /\ jobsClosed))

\* the only worker of the pool failed to convert the first job to DNG and
\* then converted the second
C27_Witness ==
    /\ numWorkers = 1
    /\ cfg.ConvertToDNG
    /\ \E a, b \in 1..Len(drained) :
          /\ drained[a].index = 0 /\ drained[a].err = "DNG conversion failed"
          /\ drained[b].index = 1 /\ drained[b].err = "nil"

\* C28: the jobs channel holds the jobs sent and not yet received, in the order
\* of their sending, and the jobs received so far are a prefix of the jobs
\* sent (job i is received no later than job j for i < j); when the send loop
\* has a job to send the channel has room for it, and while a worker holds a
\* job the results channel has room for its result.
C28_FIFOAndNoBlocking ==
    /\ \A i, j \in DOMAIN took : (i < j /\ took[j] > 0) => took[i] > 0
    /\ \A k \in 1..Len(jobs) :
          /\ jobs[k].index = sent - Len(jobs) + k - 1
          /\ jobs[k].rawFile = newRAWFiles[jobs[k].index + 1]
    /\ (pc = "send" /\ sent < Len(newRAWFiles)) => Len(jobs) < Len(newRAWFiles)
    /\ Len(results) + Cardinality(Busy) <= Len(newRAWFiles)

\* three jobs were sent; two workers hold the first two and the third waits on
\* the channel
C28_Witness ==
    /\ Len(newRAWFiles) = 3
    /\ sent = 3
    /\ numWorkers = 2
    /\ took = << 1, 1, 0 >>
    /\ Cardinality(Busy) = 2
    /\ Len(jobs) = 1

-----------------------------------------------------------------------------
(* Claims about the intermediate DNG files *)

\* a run with the DNG step and the cleanup of DNG files has returned nil
DNGRunEnded == pc = "done" /\ exit = "ok" /\ cfg.ConvertToDNG /\ cfg.CleanupDNGFiles

\* the DNG files still there are those of jobs that RawTherapee failed on, in
\* a configured DNG directory
OnlyFailedConversionsLeaveDNG ==
    DNGRunEnded =>
        \A p \in dngDir :
            /\ cfg.DNGOutputDirectory # ""
            /\ \E i \in 1..Len(drained) :
                  /\ drained[i].err = "rawtherapee-cli failed"
                  /\ DNGOutputPath(drained[i].rawFile.Path) = p

\* C29: with the DNG step and the cleanup of DNG files on, no DNG file that
\* the run produced is left when the run has ended (every os.Remove
\* succeeding), also not the DNG file of a job that RawTherapee failed on.
C29_IntermediateFilesCleaned ==
    DNGRunEnded => dngDir = {}

-----------------------------------------------------------------------------
(* Claims about the JPG-only mode *)

\* the JPG files of the scan that the loaded mapping does not hold, in
\* discovery order
NewJPGInOrder ==
    LET IsNew(f) == f.Name \notin loaded
    IN  SelectSeq(scanResult.JPGFiles, IsNew)

\* the upload loop of runJPGOnlyMode and what follows it, in the state at hand
JPGLoopHolds ==
    /\ newJPGFiles = NewJPGInOrder
    /\ Len(uploads) = jpgIndex
    /\ \A i \in 1..jpgIndex :
          uploads[i].batch = "single" /\ uploads[i].files = {newJPGFiles[i].Name}
    /\ \A n \in NamesOf(newJPGFiles) :
          /\ n \in DOMAIN appState.ProcessedFiles
                <=> \E i \in 1..jpgIndex : uploads[i].ok /\ uploads[i].files = {n}
          /\ n \in DOMAIN appState.ProcessedFiles
                => appState.ProcessedFiles[n].ProfileUsed = "jpg-only"
    /\ pc \in {"jpgloop", "save"} => DOMAIN Load(disk).state.ProcessedFiles = loaded
    /\ pc \in {"save", "done"} =>
          \/ exit \in {"nonew", "dry"} /\ jpgIndex = 0
          \/ jpgIndex = Len(newJPGFiles) /\ exit \in {"", "ok", "fatal"}
    /\ (pc = "done" /\ exit = "ok") => Load(disk).state = appState

\* a JPG-only run has filtered the JPG files
JPGOnlyRun == ~cfg.ProcessRAWFiles /\ pc \in {"jpgloop", "save", "done"}

\* with an uploader (upload not skipped) the loop behaves as claimed
JPGOnlyWithUploader == (JPGOnlyRun /\ ~cfg.SkipUpload) => JPGLoopHolds

\* C30: in a JPG-only run the new JPG files are uploaded one per call in
\* discovery order, a file name is in the mapping (profile "jpg-only") exactly
\* when an upload call for it succeeded, a failed upload is followed by the
\* uploads of the remaining files, and the state is saved once, after the
\* loop.
C30_JPGOnlyUploadsAndMarks == JPGOnlyRun => JPGLoopHolds

-----------------------------------------------------------------------------
(* The limit in both modes *)

\* the file names this run has added to the processed mapping
MarkedThisRun == DOMAIN appState.ProcessedFiles \ loaded

\* the file names the single-file upload calls of this run have sent
SentSingly ==
    UNION {uploads[i].files : i \in {j \in 1..Len(uploads) : uploads[j].batch = "single"}}

\* a run with a limit has filtered its files
LimitedRun == cfg.Limit > 0 /\ pc \in {"send", "drain", "upload", "uploadCamera",
                                       "cleanup", "jpgloop", "save", "done"}

\* in RAW mode the limit bounds the jobs and the marks (329-332)
RAWModeObeysLimit ==
    (LimitedRun /\ cfg.ProcessRAWFiles) =>
        /\ Len(newRAWFiles) <= cfg.Limit
        /\ Cardinality(MarkedThisRun) <= cfg.Limit

\* C31: with a limit L > 0 a run uploads and marks at most L files, in RAW
\* mode and in JPG-only mode.
C31_LimitBoundsEveryMode ==
    LimitedRun =>
        /\ Cardinality(MarkedThisRun) <= cfg.Limit
        /\ Cardinality(SentSingly) <= cfg.Limit

-----------------------------------------------------------------------------
(* A failed write-back of the legacy migration *)

\* Load has just taken the legacy branch and its write-back has failed
LegacyWriteBackFailed ==
    /\ hist.op = "load"
    /\ hist.file.kind = "legacy"
    /\ hist.ret.file # Save(Migrate(hist.file.doc))

\* the load returns the migrated state without error; os.WriteFile has left
\* the legacy document or an empty file behind
FailedWriteBackIsNotFatal ==
    LegacyWriteBackFailed =>
        /\ ~hist.ret.err
        /\ pc \in {"store", "reloaded"}
        /\ appState = Migrate(hist.file.doc)
        /\ disk \in {hist.file, CorruptFile}

\* C32: when the write-back of a legacy load fails, the load returns the
\* migrated state without error, the process goes on with it, and the file on
\* disk is still the legacy document, which the next load migrates again.
C32_FailedWriteBackKeepsLegacyFile ==
    LegacyWriteBackFailed =>
        /\ ~hist.ret.err
        /\ pc \in {"store", "reloaded"}
        /\ appState = Migrate(hist.file.doc)
        /\ disk = hist.file
        /\ \A r \in LoadResults(disk, {}) : r.legacy /\ r.state = appState

-----------------------------------------------------------------------------
(* A RAW-mode run with -skip-upload *)

\* the run has converted in RAW mode with uploads skipped
SkipUploadRun == cfg.ProcessRAWFiles /\ cfg.SkipUpload /\ numWorkers > 0

\* the output files of this run's conversions
OutputsOfRun == {drained[i].outputPath : i \in Succeeded}

\* C33: a RAW-mode run with skip-upload makes no upload call and deletes no
\* processed output file; every file whose conversion succeeded is marked
\* processed, and the run ends with the state saved.
C33_SkipUploadStillMarksAndSaves ==
    SkipUploadRun =>
        /\ uploads = << >>
        /\ \A p \in deleted : p.dir # "out"
        /\ OutputsOfRun \subseteq outDir
        /\ \A i \in Succeeded : drained[i].rawFile.Name \in DOMAIN appState.ProcessedFiles
        /\ pc = "done" => /\ exit = "ok"
                          /\ Load(disk).state = appState
                          /\ Len(drained) = Len(newRAWFiles)

C33_Witness ==
    /\ SkipUploadRun
    /\ cfg.CleanupAfterUpload
    /\ pc = "done"
    /\ Succeeded # {}
    /\ Succeeded # 1..Len(drained)
    /\ \E i \in Succeeded : drained[i].rawFile.Name \in OnDisk

-----------------------------------------------------------------------------
(* The output paths of concurrent conversions *)

\* the file the converter call of worker w is writing: ConvertFile writes
\* OutputDir/<base>.dng (dng_converter.go 53-56), ProcessFile writes
\* OutputDir/<base>.jpg (rawtherapee.go 59-62)
WritesTo(w) ==
    IF workers[w].pc = "dng" THEN DNGOutputPath(workers[w].job.rawFile.Path)
    ELSE OutputPath(IF cfg.ConvertToDNG THEN workers[w].dngPath
                    ELSE workers[w].job.rawFile.Path)

\* two workers convert two different files of the card into one output file
TwinsCollide ==
    \E w1, w2 \in Busy :
        /\ workers[w1].job.rawFile.Path # workers[w2].job.rawFile.Path
        /\ WritesTo(w1) = WritesTo(w2)

\* C34: the converter calls that are running at the same time in one run
\* write to pairwise distinct output paths.
C34_ConcurrentOutputsDistinct ==
    \A w1, w2 \in Busy : w1 # w2 => WritesTo(w1) # WritesTo(w2)

-----------------------------------------------------------------------------
(* SpecSched: one run whose converter calls have a fixed outcome per file *)

\* the RAW files of a card
RawPathsOn(files) == {p \in files : MapBool(rawExtensions, ToUpper(p.ext))}

\* the files on which the DNG converter and RawTherapee fail: RawTherapee
\* never sees a file the DNG converter failed on
FailChoices(raws, dng) ==
    {f \in (SUBSET raws) \X (SUBSET raws) :
        f[1] \cap f[2] = {} /\ (~dng => f[1] = {})}

\* 1 to MaxPoolWorkers workers, uploads enabled and succeeding
SchedConfigs ==
    UNION {{[DefaultConfig EXCEPT !.Workers = w, !.NumCPU = 8, !.ConvertToDNG = d,
                                  !.FailDNG = f[1], !.FailRT = f[2]] :
               w \in 1..MaxPoolWorkers, f \in FailChoices(RawPathsOn(card), d)} :
           d \in BOOLEAN}

InitSched ==
    /\ RunReset
    /\ card \in {CardPaths, TwinCard}
    /\ disk \in {MissingFile} \cup {Save(StateWith({n})) : n \in RawNames}
    /\ now = MaxClock
    /\ outDir = {}
    /\ dngDir = {}
    /\ hist = NoHist
    /\ pc = "idle"
    /\ runs = 0
    /\ absentSeen = {}

NextSched ==
    \/ StartRun(SchedConfigs)
    \/ ScanAndSync
    \/ FilterRAW
    \/ PreparePool
    \/ PoolStep
    \/ UploadProcessed
    \/ UploadCamera
    \/ Cleanup
    \/ SaveState

SpecSched == InitSched /\ [][NextSched]_vars

\* the new RAW files whose converter calls all succeed, by the inputs of the
\* run alone: the catalog, the loaded mapping and the fixed outcomes
ExpectedConverted ==
    {i \in 1..Len(NewInOrder) : NewInOrder[i].Path \notin cfg.FailDNG \cup cfg.FailRT}

ExpectedNames == {NewInOrder[i].Name : i \in ExpectedConverted}

ExpectedOutputs ==
    {[dir |-> "out", base |-> NewInOrder[i].BaseName, ext |-> "jpg"] : i \in ExpectedConverted}

ExpectedCamera ==
    {FirstJPGFor(NewInOrder[i])[1] :
        i \in {j \in ExpectedConverted : FirstJPGFor(NewInOrder[j]) # << >>}}

\* the mapping the run ends with: what was loaded and is on the card, and
\* the names converted
ExpectedMapping == (loaded \cap DOMAIN FilesOnCard(scanResult)) \cup ExpectedNames

\* the consumer has drained the pool of this run
AfterPool == numWorkers > 0 /\ pc \in {"upload", "uploadCamera", "cleanup", "save", "done"}

\* C35: for a fixed catalog, initial state and fixed outcome of each file's
\* converter calls, the names in the saved mapping and the files of the two
\* upload batches are the same for every number of workers and every
\* interleaving; only the order of the drained results differs.
C35_ResultIndependentOfScheduling ==
    AfterPool =>
        /\ DOMAIN appState.ProcessedFiles = ExpectedMapping
        /\ Range(processedJPGs) = ExpectedOutputs
        /\ Range(cameraJPGs) = ExpectedCamera
        /\ \A u \in 1..Len(uploads) :
              /\ uploads[u].batch = "processed"
                    => uploads[u].files = {BaseOf(p) : p \in ExpectedOutputs}
              /\ uploads[u].batch = "camera"
                    => uploads[u].files = {BaseOf(p) : p \in ExpectedCamera}
        /\ pc = "done" => exit = "ok" /\ OnDisk = ExpectedMapping

\* two workers delivered the results out of job order, one of them an error
C35_Witness ==
    /\ AfterPool
    /\ pc = "done"
    /\ numWorkers >= 2
    /\ Len(drained) >= 2
    /\ drained[1].index > drained[2].index
    /\ Succeeded # {}
    /\ Succeeded # 1..Len(drained)
    /\ Len(uploads) = 2

-----------------------------------------------------------------------------
(* SpecLimit: the same command with a limit, repeated on an unchanged card *)

\* what the repeated invocations have in common: the limit on the command
\* line and the names recorded before the first of them
Repeat(limit, names) == [op |-> "repeat", Limit |-> limit, recorded |-> names]

\* RAW mode, every conversion succeeds, uploads skipped or succeeding
LimitConfigs ==
    {[DefaultConfig EXCEPT !.Limit = hist.Limit, !.SkipUpload = sk, !.ConvertToDNG = d,
                           !.Workers = w] :
        sk \in BOOLEAN, d \in BOOLEAN, w \in 1..2}

InitLimit ==
    /\ RunReset
    /\ card \in {files \in SUBSET CardPaths : RawPathsOn(files) # {}} \cup {TwinCard, FullCard}
    /\ disk \in {MissingFile} \cup {Save(StateWith({n})) : n \in RawNames}
    /\ now = MaxClock
    /\ outDir = {}
    /\ dngDir = {}
    /\ \E l \in 1..MaxLimit : hist = Repeat(l, OnDisk)
    /\ pc = "idle"
    /\ runs = 0
    /\ absentSeen = {}

NextLimit ==
    \/ StartRunWithin(LimitConfigs, MaxLimitRuns)
    \/ ScanAndSync
    \/ FilterRAW
    \/ PreparePool
    \/ PoolStep
    \/ UploadProcessed
    \/ UploadCamera
    \/ Cleanup
    \/ SaveState
    \/ Exit

SpecLimit == InitLimit /\ [][NextLimit]_vars

\* the different RAW file names of the card in discovery order
RECURSIVE FirstOccurrences(_)
FirstOccurrences(files) ==
    IF files = << >> THEN << >>
    ELSE LET front == FirstOccurrences(SubSeq(files, 1, Len(files) - 1))
             last == files[Len(files)]
         IN  IF last.Name \in NamesOf(front) THEN front ELSE Append(front, last)

Discovery == FirstOccurrences(ScanForImages(OnCard(card)).RAWFiles)

\* the k files that were unrecorded before the first run
Unrecorded ==
    LET IsNew(f) == f.Name \notin hist.recorded
    IN  SelectSeq(Discovery, IsNew)

\* the names of the first min(n, k) of them
FirstUnrecorded(n) == {Unrecorded[i].Name : i \in 1..Min(n, Len(Unrecorded))}

\* the recorded names of files on the card, after r runs
RecordedAfter(r) ==
    (hist.recorded \cap NamesOf(Discovery)) \cup FirstUnrecorded(r * hist.Limit)

-----------------------------------------------------------------------------
(* SpecCrash: the process stops between the start of the pool and the save *)

\* the names whose conversion has succeeded in this run: their results are on
\* the results channel or with the consumer
ConvertedInRun ==
    {results[i].rawFile.Name : i \in {j \in 1..Len(results) : results[j].err = "nil"}}
        \cup {drained[i].rawFile.Name : i \in Succeeded}

\* the pool has been started and appState.Save() (658) has not been called
BeforeTheSave == pc \in {"send", "drain", "upload", "uploadCamera", "cleanup", "save"}

\* the process is killed or the machine loses power: no deferred call runs,
\* the files stay as they are, the memory is gone
Kill ==
    /\ BeforeTheSave
    /\ pc' = "idle"
    /\ runs' = runs + 1
    /\ RunResetNext
    /\ hist' = [op |-> "killed", converted |-> ConvertedInRun, loaded |-> loaded,
                file |-> disk]
    /\ UNCHANGED << envVars, absentSeen >>

\* RAW mode without a limit, conversions may fail, uploads skipped
CrashConfigs ==
    {[DefaultConfig EXCEPT !.Workers = w, !.ConvertToDNG = d, !.SkipUpload = TRUE,
                           !.Faults = {"convert"}] :
        w \in 1..2, d \in BOOLEAN}

InitCrash ==
    /\ RunReset
    /\ card \in {files \in SUBSET CardPaths : RawPathsOn(files) # {}} \cup {TwinCard}
    /\ disk \in {MissingFile} \cup {Save(StateWith({n})) : n \in RawNames}
    /\ now = MaxClock
    /\ outDir = {}
    /\ dngDir = {}
    /\ hist = NoHist
    /\ pc = "idle"
    /\ runs = 0
    /\ absentSeen = {}

NextCrash ==
    \/ StartRun(CrashConfigs)
    \/ ScanAndSync
    \/ FilterRAW
    \/ PreparePool
    \/ PoolStep
    \/ UploadProcessed
    \/ UploadCamera
    \/ Cleanup
    \/ SaveState
    \/ Kill
    \/ Exit

SpecCrash == InitCrash /\ [][NextCrash]_vars

\* C37: the marks of a run reach the state file only in the save at its end:
\* when the process stops after the start of the pool and before that save,
\* the mapping on disk is the one the run started with, and the next run
\* submits every file the interrupted run had converted.
C37_MarksDurableOnlyAtTheSave ==
    /\ BeforeTheSave => OnDisk = loaded
    /\ (hist.op = "killed" /\ pc = "idle") =>
          /\ disk = hist.file
          /\ OnDisk = hist.loaded
          /\ OnDisk \cap hist.converted = {}
    /\ (hist.op = "killed" /\ pc = "filtered") =>
          hist.converted \subseteq NamesOf(newRAWFiles)
    /\ (hist.op = "killed" /\ BeforeTheSave) =>
          /\ hist.converted \subseteq NamesOf(newRAWFiles)
          /\ pc # "send" => hist.converted \subseteq NamesOf(Submitted)
    /\ (hist.op = "killed" /\ hist.converted # {} /\ pc = "done") =>
          numWorkers > 0 /\ exit = "ok"

\* a run was stopped after two conversions, one of them marked in memory; the
\* next run has submitted both files again
C37_Witness ==
    /\ hist.op = "killed"
    /\ Cardinality(hist.converted) = 2
    /\ pc = "drain"
    /\ hist.converted \subseteq NamesOf(Submitted)
    /\ OnDisk = hist.loaded

-----------------------------------------------------------------------------
(* Keys and records of the processed mapping *)

\* the file names a caller may ask about
AskedNames == Names \cup {NoName}

\* every key maps to the record of that file name
KeysNameTheirRecords(s) ==
    \A k \in DOMAIN s.ProcessedFiles : s.ProcessedFiles[k].Filename = k

\* C38: in every State reached from an empty or a legacy-migrated one by
\* markProcessed, syncWithCard and clear, each key of the processed mapping
\* maps to a record whose Filename is that key, and isProcessed(f) is true
\* exactly when f is a key, which is exactly when the snapshot of
\* GetProcessedFilesMap holds f.
C38_KeysMatchRecords ==
    /\ KeysNameTheirRecords(appState)
    /\ \A f \in AskedNames :
          /\ IsProcessed(appState, f) <=> f \in DOMAIN appState.ProcessedFiles
          /\ IsProcessed(appState, f) <=> MapBool(GetProcessedFilesMap(appState), f)
    /\ \A f \in DOMAIN GetProcessedFilesMap(appState) : GetProcessedFilesMap(appState)[f]

\* a State migrated from a legacy file (still on disk) to which a second name
\* was added by markProcessed
C38_Witness ==
    /\ pc = "store"
    /\ disk.kind = "legacy"
    /\ hist.op = "mark"
    /\ Cardinality(DOMAIN appState.ProcessedFiles) = 2
    /\ \E f \in AskedNames : ~IsProcessed(appState, f)

=============================================================================
